---- MODULE Spec2Model ----
(***************************************************************************)
(* A model of the PragyanAI student project tracker: the relational store  *)
(* (db), the Streamlit session state of each browser session (sess), the   *)
(* position of a script run that is between two of its writes (run), and   *)
(* what the last script run did and showed (ev).                           *)
(*                                                                         *)
(* The repository holds two variants that share one store and one session  *)
(* state: the main script (PragyanAI_Student_ProjectTracker_App.py, roles  *)
(* 'user' and 'admin', its own execute_query without error handling) and   *)
(* the pages under pages/ with utils.py (roles 'user', 'super_admin' and   *)
(* 'project_manager', execute_query that reports sqlite3.Error and goes    *)
(* on).  Actions of the main script are prefixed MA_, those of utils.py    *)
(* U_, and those of each page by the page's initials.                      *)
(*                                                                         *)
(* The schema file project_tracker.sql is not among the sources: the       *)
(* uniqueness constraints and the column defaults are taken from the       *)
(* specification's data model (section 3).                                 *)
(***************************************************************************)
EXTENDS Integers, Sequences, FiniteSets, TLC

\* ---------------------------------------------------------------- bounds
MaxManagers == 2
MaxMembers == 2
MaxProjects == 2
MaxMemberships == 2
MaxRequirements == 1
MaxSprints == 1
MaxTasks == 2
MaxIssues == 2
MaxResponses == 2
MaxUpdates == 1
MaxDraftKeys == 2

\* ------------------------------------------------------- input domains
Sessions == {"s1", "s2"}
BootstrapUser == "Sateesh"
BootstrapPassword == "Kanasu@1976"
Usernames == {BootstrapUser, "pm1"}
Emails == {"alice@example.com", "bob@example.com"}
Passwords == {BootstrapPassword, "pw"}
ProjectNames == {"Alpha", "Beta"}
StatusOptions == {"To Do", "In Progress", "Done", "Blocked"}
Today == "2026-01-01"

NULL == 0
NullDate == "NULL"
NullText == "<NULL>"
Absent == "absent"

VARIABLES db, sess, run, ev, cache

vars == <<db, sess, run, ev, cache>>

\* ------------------------------------------------------------- helpers
Min(S) == CHOOSE x \in S : \A y \in S : x <= y

Rows(tbl) == 1..Len(tbl)

\* fetchone() of SELECT * FROM tbl WHERE key = val: the id of the first row
\* (rowid order), NULL when there is none.
FetchOneBy(tbl, key, val) ==
    LET hits == {i \in Rows(tbl) : tbl[i][key] = val}
    IN  IF hits = {} THEN NULL ELSE Min(hits)

\* passlib's bcrypt context: hash() produces a tagged digest of the password,
\* verify() recomputes it (the salt is part of the digest and is not modelled).
get_password_hash(password) == <<"bcrypt", password>>

\* (a verification that compares the password as typed with the stored digest)
verify_password_unhashed(plain_password, hashed_password) ==
    hashed_password = <<"plain", plain_password>>

verify_password(plain_password, hashed_password) ==
    hashed_password = get_password_hash(plain_password)

\* ------------------------------------------------------ schema (spec §3)
\* UNIQUE columns: a statement that would repeat the value raises
\* sqlite3.IntegrityError.
UniqueViolation(tbl, key, val) == \E i \in Rows(tbl) : tbl[i][key] = val

\* ------------------------------------------------------------- sessions
\* The keys of st.session_state; refined and tasks stand for the keys
\* refined_<requirement id> and tasks_<requirement id> of the Manage page.
NewSession ==
    [logged_in |-> Absent, user_type |-> Absent, user_id |-> NULL,
     selected_project_id |-> NULL, groq_api_key |-> Absent,
     db_initialized |-> FALSE,
     refined |-> [r \in 1..MaxDraftKeys |-> Absent],
     tasks |-> [r \in 1..MaxDraftKeys |-> Absent]]

LoggedIn(s) == sess[s].logged_in = "true"

Idle == [pc |-> "idle"]

\* ------------------------------------------------------ st.cache_data
\* What get_maps and get_project_maps compute for a project: the ids of its
\* members (JOIN team_members), requirements and tasks.  project_id is no part
\* of the returned maps: it records the project they were computed for.
ProjectMaps(d, project_id) ==
    [cached |-> TRUE, project_id |-> project_id,
     members |-> {m \in Rows(d.team_members) :
                    \E i \in Rows(d.project_members) :
                        /\ d.project_members[i].project_id = project_id
                        /\ d.project_members[i].member_id = m},
     requirements |-> {r \in Rows(d.requirements) :
                         d.requirements[r].project_id = project_id},
     tasks |-> {k \in Rows(d.tasks) : d.tasks[k].project_id = project_id}]

\* The process-wide caches: get_maps is keyed by its argument and never
\* expires; get_project_maps has one entry, as its only argument starts with
\* an underscore and is left out of the key, and a ttl of 600 s.
NoEntry ==
    [cached |-> FALSE, project_id |-> NULL, members |-> {}, requirements |-> {},
     tasks |-> {}]

\* What get_project_context (AI_&_Resources.py) computes for a project: its row
\* and its requirements; one cached entry, as for get_project_maps.
ProjectContext(d, project_id) ==
    [cached |-> TRUE, project_id |-> project_id,
     name |-> d.projects[project_id].name,
     requirements |-> {r \in Rows(d.requirements) :
                         d.requirements[r].project_id = project_id}]

NoContext ==
    [cached |-> FALSE, project_id |-> NULL, name |-> "", requirements |-> {}]

EmptyCache ==
    [get_maps |-> [p \in 1..MaxProjects |-> NoEntry], get_project_maps |-> NoEntry,
     get_project_context |-> NoContext]

\* ----------------------------------------------------------------- Init
EmptyDb ==
    [admins |-> << >>, super_admins |-> << >>, project_managers |-> << >>,
     team_members |-> << >>, projects |-> << >>, project_members |-> << >>,
     requirements |-> << >>, sprints |-> << >>, sprint_requirements |-> << >>,
     tasks |-> << >>, task_issues |-> << >>, issue_responses |-> << >>,
     progress_updates |-> << >>]

BootstrapRow ==
    [username |-> BootstrapUser, password |-> get_password_hash(BootstrapPassword)]

\* The store once both init_db have seeded it (the main script's on its first
\* run, utils.init_db on its first call), and sessions that hold nothing.
Init ==
    /\ db = [EmptyDb EXCEPT !.admins = <<BootstrapRow>>,
                            !.super_admins = <<BootstrapRow>>]
    /\ sess = [s \in Sessions |-> NewSession]
    /\ run = [s \in Sessions |-> Idle]
    /\ ev = [op |-> "init"]
    /\ cache = EmptyCache

\* ------------------------------------------------------ utils.login_user
\* The row the manager_or_admin branch resolves: super_admins first, then
\* project_managers only when no super_admins row has the identifier.
ResolveManagerOrAdmin_pmfirst(d, identifier) ==
    LET pm == FetchOneBy(d.project_managers, "username", identifier)
        sa == FetchOneBy(d.super_admins, "username", identifier)
    IN  IF pm # NULL
        THEN [user_type |-> "project_manager", id |-> pm,
              password |-> d.project_managers[pm].password]
        ELSE IF sa # NULL
        THEN [user_type |-> "super_admin", id |-> sa,
              password |-> d.super_admins[sa].password]
        ELSE [user_type |-> Absent, id |-> NULL, password |-> << >>]

ResolveManagerOrAdmin(d, identifier) ==
    LET sa == FetchOneBy(d.super_admins, "username", identifier)
        pm == FetchOneBy(d.project_managers, "username", identifier)
    IN  IF sa # NULL
        THEN [user_type |-> "super_admin", id |-> sa,
              password |-> d.super_admins[sa].password]
        ELSE IF pm # NULL
        THEN [user_type |-> "project_manager", id |-> pm,
              password |-> d.project_managers[pm].password]
        ELSE [user_type |-> Absent, id |-> NULL, password |-> << >>]

ResolveUser(d, identifier, user_type_selection) ==
    IF user_type_selection = "user"
    THEN LET tm == FetchOneBy(d.team_members, "email", identifier)
         IN  IF tm # NULL
             THEN [user_type |-> "user", id |-> tm,
                   password |-> d.team_members[tm].password]
             ELSE [user_type |-> Absent, id |-> NULL, password |-> << >>]
    ELSE IF user_type_selection = "manager_or_admin"
    THEN ResolveManagerOrAdmin(d, identifier)
    ELSE [user_type |-> Absent, id |-> NULL, password |-> << >>]

U_Login(s, identifier, password, user_type_selection) ==
    LET user == ResolveUser(db, identifier, user_type_selection)
        ok == user.id # NULL /\ verify_password(password, user.password)
    IN  /\ run[s] = Idle
        /\ sess' = IF ok
                   THEN [sess EXCEPT ![s].logged_in = "true",
                                     ![s].user_type = user.user_type,
                                     ![s].user_id = user.id]
                   ELSE sess
        /\ ev' = [op |-> "u_login", s |-> s, identifier |-> identifier,
                  password |-> password, selection |-> user_type_selection,
                  ok |-> ok]
        /\ UNCHANGED <<db, run, cache>>

\* (a logout that deletes every key but db_initialized and puts nothing back)
U_Logout_dropskey(s) ==
    /\ run[s] = Idle
    /\ LoggedIn(s)
    /\ sess' = [sess EXCEPT ![s] =
                  [NewSession EXCEPT !.db_initialized = sess[s].db_initialized,
                                     !.logged_in = "false"]]
    /\ ev' = [op |-> "u_logout", s |-> s]
    /\ UNCHANGED <<db, run, cache>>

\* utils.logout: every key but db_initialized is deleted, the API key is put
\* back when it was set, logged_in is set to False.
U_Logout(s) ==
    /\ run[s] = Idle
    /\ LoggedIn(s)
    /\ sess' = [sess EXCEPT ![s] =
                  [NewSession EXCEPT !.db_initialized = sess[s].db_initialized,
                                     !.groq_api_key = sess[s].groq_api_key,
                                     !.logged_in = "false"]]
    /\ ev' = [op |-> "u_logout", s |-> s]
    /\ UNCHANGED <<db, run, cache>>

\* ------------------------------------------- main script: login, logout
\* login_user of the main script: the admins table for user_type 'admin',
\* team_members otherwise; the stored role is the claimed one.
MA_ResolveUser(d, email, user_type) ==
    IF user_type = "admin"
    THEN LET a == FetchOneBy(d.admins, "username", email)
         IN  [id |-> a, password |-> IF a = NULL THEN << >> ELSE d.admins[a].password]
    ELSE LET tm == FetchOneBy(d.team_members, "email", email)
         IN  [id |-> tm,
              password |-> IF tm = NULL THEN << >> ELSE d.team_members[tm].password]

\* The st.error of display_login_form when login_user returned False: one
\* text per tab.
LoginFormError(user_type) ==
    IF user_type = "admin" THEN "Invalid admin username or password."
    ELSE "Invalid email or password."

\* (a login form that tells an unknown identifier from a wrong password)
MA_Login_leaky(s, email, password, user_type) ==
    LET user == MA_ResolveUser(db, email, user_type)
        ok == user.id # NULL /\ verify_password(password, user.password)
    IN  /\ run[s] = Idle
        /\ ~LoggedIn(s)
        /\ sess' = IF ok
                   THEN [sess EXCEPT ![s].logged_in = "true",
                                     ![s].user_type = user_type,
                                     ![s].user_id = user.id]
                   ELSE sess
        /\ ev' = [op |-> "ma_login", s |-> s, identifier |-> email,
                  password |-> password, selection |-> user_type, ok |-> ok,
                  msgs |-> IF ok THEN {}
                           ELSE IF user.id = NULL THEN {"No such account."}
                           ELSE {"Wrong password."}]
        /\ UNCHANGED <<db, run, cache>>

\* A submit of one of the two forms of display_login_form, which is reached
\* only behind the login wall (lines 125-128): login_user, then st.rerun on
\* True and st.error on False.
MA_Login(s, email, password, user_type) ==
    LET user == MA_ResolveUser(db, email, user_type)
        ok == user.id # NULL /\ verify_password(password, user.password)
    IN  /\ run[s] = Idle
        /\ ~LoggedIn(s)
        /\ sess' = IF ok
                   THEN [sess EXCEPT ![s].logged_in = "true",
                                     ![s].user_type = user_type,
                                     ![s].user_id = user.id]
                   ELSE sess
        /\ ev' = [op |-> "ma_login", s |-> s, identifier |-> email,
                  password |-> password, selection |-> user_type, ok |-> ok,
                  msgs |-> IF ok THEN {} ELSE {LoginFormError(user_type)}]
        /\ UNCHANGED <<db, run, cache>>

\* logout of the main script: logged_in False, user_type and user_info popped;
\* every other key (the selected project among them) stays.
MA_Logout(s) ==
    /\ run[s] = Idle
    /\ LoggedIn(s)
    /\ sess' = [sess EXCEPT ![s].logged_in = "false",
                            ![s].user_type = Absent,
                            ![s].user_id = NULL]
    /\ ev' = [op |-> "ma_logout", s |-> s]
    /\ UNCHANGED <<db, run, cache>>

\* ------------------------------------------ main script: project selection
\* SELECT p.id FROM projects p JOIN project_members pm ... WHERE pm.member_id = ?
\* collected into project_map (a dict: one key per project).
AssignedProjects_all(d, user_id) == Rows(d.projects)

AssignedProjects(d, user_id) ==
    {p \in Rows(d.projects) :
        \E i \in Rows(d.project_members) :
            /\ d.project_members[i].project_id = p
            /\ d.project_members[i].member_id = user_id}

\* get_maps(project_id) under @st.cache_data: computed on the first call for a
\* project, the stored value afterwards.
CachedGetMaps(c, d, project_id) ==
    IF ~c.get_maps[project_id].cached
    THEN [c EXCEPT !.get_maps[project_id] = ProjectMaps(d, project_id)]
    ELSE c

\* One run of the main script by a logged-in principal that is not 'admin':
\* the run stops when no project is assigned, else the sidebar's choice is
\* stored in the session.
MA_SelectProject(s, p) ==
    LET options == AssignedProjects(db, sess[s].user_id)
    IN  /\ run[s] = Idle
        /\ LoggedIn(s)
        /\ sess[s].user_type # "admin"
        /\ IF options = {}
           THEN /\ sess' = sess
                /\ cache' = cache
                /\ ev' = [op |-> "ma_select", s |-> s, listing |-> options,
                          stopped |-> TRUE, selected |-> NULL]
           ELSE /\ p \in options
                /\ sess' = [sess EXCEPT ![s].selected_project_id = p]
                /\ ev' = [op |-> "ma_select", s |-> s, listing |-> options,
                          stopped |-> FALSE, selected |-> p]
                /\ cache' = CachedGetMaps(cache, db, p)
        /\ UNCHANGED <<db, run>>

\* The main script's 'Project Manager Dashboard' (PAGES_ADMIN): the selector
\* lists every row of projects.
MA_PMDashboard(s, p) ==
    LET all_projects == Rows(db.projects)
    IN  /\ run[s] = Idle
        /\ LoggedIn(s)
        /\ sess[s].user_type = "admin"
        /\ IF all_projects = {}
           THEN ev' = [op |-> "ma_pm_dashboard", s |-> s, listing |-> all_projects,
                       stopped |-> TRUE, selected |-> NULL]
           ELSE /\ p \in all_projects
                /\ ev' = [op |-> "ma_pm_dashboard", s |-> s,
                          listing |-> all_projects, stopped |-> FALSE,
                          selected |-> p]
        /\ UNCHANGED <<db, sess, run, cache>>

\* ------------------------------------------------ main script: admin panel
IsMainAdmin(s) == LoggedIn(s) /\ sess[s].user_type = "admin"

\* create_project_form: the insert runs in the main script's execute_query,
\* whose IntegrityError the form catches; any other sqlite3.Error ends the run
\* (accepted = FALSE: the store refuses the statement).
MA_AdminCreateProject(s, project_name, accepted) ==
    LET dup == UniqueViolation(db.projects, "name", project_name)
        inserted == accepted /\ ~dup
    IN  /\ run[s] = Idle
        /\ IsMainAdmin(s)
        /\ Len(db.projects) < MaxProjects
        /\ db' = IF inserted
                 THEN [db EXCEPT !.projects = Append(@,
                          [name |-> project_name, manager_id |-> NULL,
                           problem_statement |-> ""])]
                 ELSE db
        /\ ev' = [op |-> "create_project", s |-> s, page |-> "main",
                  name |-> project_name, dup |-> dup, inserted |-> inserted,
                  msgs |-> IF inserted THEN {"success"}
                           ELSE IF dup THEN {"already_exists"}
                           ELSE {"exception"}]
        /\ UNCHANGED <<sess, run, cache>>

MA_AdminAddUser(s, member_email, member_pass, accepted) ==
    LET dup == UniqueViolation(db.team_members, "email", member_email)
        inserted == accepted /\ ~dup
    IN  /\ run[s] = Idle
        /\ IsMainAdmin(s)
        /\ Len(db.team_members) < MaxMembers
        /\ db' = IF inserted
                 THEN [db EXCEPT !.team_members = Append(@,
                          [email |-> member_email,
                           password |-> get_password_hash(member_pass)])]
                 ELSE db
        /\ ev' = [op |-> "add_user", s |-> s, page |-> "main",
                  role |-> "Team Member", name |-> member_email, dup |-> dup,
                  inserted |-> inserted,
                  msgs |-> IF inserted THEN {"success"}
                           ELSE IF dup THEN {"already_exists"}
                           ELSE {"exception"}]
        /\ UNCHANGED <<sess, run, cache>>

\* UNIQUE (project_id, member_id) of project_members.
MembershipExists(d, project_id, member_id) ==
    \E i \in Rows(d.project_members) :
        /\ d.project_members[i].project_id = project_id
        /\ d.project_members[i].member_id = member_id

MA_AdminAssignUser(s, user_id, project_id, accepted) ==
    LET dup == MembershipExists(db, project_id, user_id)
        inserted == accepted /\ ~dup
    IN  /\ run[s] = Idle
        /\ IsMainAdmin(s)
        /\ user_id \in Rows(db.team_members)
        /\ project_id \in Rows(db.projects)
        /\ Len(db.project_members) < MaxMemberships
        /\ db' = IF inserted
                 THEN [db EXCEPT !.project_members = Append(@,
                          [project_id |-> project_id, member_id |-> user_id])]
                 ELSE db
        /\ ev' = [op |-> "assign", s |-> s, page |-> "main", dup |-> dup,
                  inserted |-> inserted,
                  msgs |-> IF inserted THEN {"success"}
                           ELSE IF dup THEN {"already_assigned"}
                           ELSE {"exception"}]
        /\ UNCHANGED <<sess, run, cache>>

\* --------------------------------------------------- pages/Admin_Panel.py
\* (the page without its security check)
IsSuperAdmin_unguarded(s) == TRUE

\* The security check of the page (lines 7-13).
IsSuperAdmin(s) == LoggedIn(s) /\ sess[s].user_type = "super_admin"

\* What utils.execute_query shows for a write: on any sqlite3.Error (an
\* IntegrityError included) st.error and None, and the caller goes on.
UtilsWriteMsgs(committed) == IF committed THEN {} ELSE {"database_error"}

\* add_project_form: st.success follows execute_query whatever it returned.
AP_CreateProject(s, project_name, manager_id, accepted) ==
    LET dup == UniqueViolation(db.projects, "name", project_name)
        inserted == accepted /\ ~dup
    IN  /\ run[s] = Idle
        /\ IsSuperAdmin(s)
        /\ manager_id \in Rows(db.project_managers)
        /\ Len(db.projects) < MaxProjects
        /\ db' = IF inserted
                 THEN [db EXCEPT !.projects = Append(@,
                          [name |-> project_name, manager_id |-> manager_id,
                           problem_statement |-> ""])]
                 ELSE db
        /\ ev' = [op |-> "create_project", s |-> s, page |-> "admin_panel",
                  name |-> project_name, dup |-> dup, inserted |-> inserted,
                  msgs |-> UtilsWriteMsgs(inserted) \cup {"success"}]
        /\ UNCHANGED <<sess, run, cache>>

\* add_user_form: a project manager (username) or a team member (email).
AP_AddUser(s, user_role, name, password, accepted) ==
    LET tbl == IF user_role = "Project Manager"
               THEN db.project_managers ELSE db.team_members
        key == IF user_role = "Project Manager" THEN "username" ELSE "email"
        dup == UniqueViolation(tbl, key, name)
        inserted == accepted /\ ~dup
        hashed_password == get_password_hash(password)
    IN  /\ run[s] = Idle
        /\ IsSuperAdmin(s)
        /\ IF user_role = "Project Manager"
           THEN name \in Usernames /\ Len(db.project_managers) < MaxManagers
           ELSE name \in Emails /\ Len(db.team_members) < MaxMembers
        /\ db' = IF ~inserted THEN db
                 ELSE IF user_role = "Project Manager"
                 THEN [db EXCEPT !.project_managers = Append(@,
                          [username |-> name, password |-> hashed_password])]
                 ELSE [db EXCEPT !.team_members = Append(@,
                          [email |-> name, password |-> hashed_password])]
        /\ ev' = [op |-> "add_user", s |-> s, page |-> "admin_panel",
                  role |-> user_role, name |-> name, dup |-> dup,
                  inserted |-> inserted,
                  msgs |-> UtilsWriteMsgs(inserted) \cup {"success"}]
        /\ UNCHANGED <<sess, run, cache>>

\* --------------------------------- main script: the project-specific pages
\* The branch at line 362 in a run of a principal that is not 'admin': the
\* run has set selected_project_id to one of the sidebar's options before any
\* page code (a form is submitted only in a run that follows one which
\* rendered it).
MA_UserPage(s) ==
    /\ run[s] = Idle
    /\ LoggedIn(s)
    /\ sess[s].user_type # "admin"
    /\ sess[s].selected_project_id \in AssignedProjects(db, sess[s].user_id)

\* What the main script's execute_query shows for a write of a form that does
\* not catch: the exception ends the run before st.success.
MainWriteMsgs(committed) == IF committed THEN {"success"} ELSE {"exception"}

\* add_requirement_form ('Sprints & Tasks', tab 2).
MA_AddRequirement(s, accepted) ==
    LET PROJECT_ID == sess[s].selected_project_id
    IN  /\ MA_UserPage(s)
        /\ Len(db.requirements) < MaxRequirements
        /\ db' = IF accepted
                 THEN [db EXCEPT !.requirements = Append(@,
                          [project_id |-> PROJECT_ID, refined_description |-> NullText])]
                 ELSE db
        /\ cache' = CachedGetMaps(cache, db, PROJECT_ID)
        /\ ev' = [op |-> "add_requirement", s |-> s, page |-> "main",
                  project |-> PROJECT_ID, inserted |-> accepted,
                  msgs |-> MainWriteMsgs(accepted)]
        /\ UNCHANGED <<sess, run>>

ProjectRequirements(d, project_id) ==
    {r \in Rows(d.requirements) : d.requirements[r].project_id = project_id}

ProjectSprints(d, project_id) ==
    {k \in Rows(d.sprints) : d.sprints[k].project_id = project_id}

\* new_sprint_form: the sprint row, then one sprint_requirements row per
\* selected requirement, each in an execute_query (a transaction) of its own.
MA_CreateSprint(s, selected_reqs, accepted) ==
    LET PROJECT_ID == sess[s].selected_project_id
    IN  /\ MA_UserPage(s)
        /\ Len(db.sprints) < MaxSprints
        /\ selected_reqs \subseteq ProjectRequirements(db, PROJECT_ID)
        /\ db' = IF accepted
                 THEN [db EXCEPT !.sprints = Append(@, [project_id |-> PROJECT_ID])]
                 ELSE db
        /\ cache' = CachedGetMaps(cache, db, PROJECT_ID)
        /\ run' = IF accepted /\ selected_reqs # {}
                  THEN [run EXCEPT ![s] = [pc |-> "ma_sprint_links",
                                           sprint_id |-> Len(db.sprints) + 1,
                                           todo |-> selected_reqs]]
                  ELSE run
        /\ ev' = [op |-> "create_sprint", s |-> s, page |-> "main",
                  project |-> PROJECT_ID, inserted |-> accepted,
                  msgs |-> IF accepted /\ selected_reqs = {} THEN {"success"}
                           ELSE IF accepted THEN {} ELSE {"exception"}]
        /\ UNCHANGED sess

\* The loop at lines 428-429, one iteration (the multiselect keeps the order
\* of the options: ascending id).
MA_CreateSprintLink(s, accepted) ==
    /\ run[s].pc = "ma_sprint_links"
    /\ LET req_id == Min(run[s].todo)
           rest == run[s].todo \ {req_id}
       IN  /\ db' = IF accepted
                    THEN [db EXCEPT !.sprint_requirements = Append(@,
                             [sprint_id |-> run[s].sprint_id,
                              requirement_id |-> req_id])]
                    ELSE db
           /\ run' = IF accepted /\ rest # {}
                     THEN [run EXCEPT ![s].todo = rest]
                     ELSE [run EXCEPT ![s] = Idle]
           /\ ev' = [op |-> "create_sprint_link", s |-> s, page |-> "main",
                     inserted |-> accepted,
                     msgs |-> IF ~accepted THEN {"exception"}
                              ELSE IF rest = {} THEN {"success"} ELSE {}]
    /\ UNCHANGED <<sess, cache>>

NewTask(project_id, sprint_id, requirement_id, assigned_to_id) ==
    [project_id |-> project_id, sprint_id |-> sprint_id,
     requirement_id |-> requirement_id, assigned_to_id |-> assigned_to_id,
     status |-> "To Do", completion_date |-> NullDate]

\* The options of an 'Assign To' selectbox: the keys of the member map; a
\* selectbox without options returns None.
AssigneeOptions(members) == IF members = {} THEN {NULL} ELSE members

\* add_task_form of the main script: the assignee is a key of MEMBERS_MAP,
\* the cached get_maps(PROJECT_ID).
MA_AddTask(s, selected_sprint_id, assigned_to_id, accepted) ==
    LET PROJECT_ID == sess[s].selected_project_id
        filled == CachedGetMaps(cache, db, PROJECT_ID)
        MEMBERS_MAP == filled.get_maps[PROJECT_ID].members
    IN  /\ MA_UserPage(s)
        /\ Len(db.tasks) < MaxTasks
        /\ selected_sprint_id \in ProjectSprints(db, PROJECT_ID)
        /\ assigned_to_id \in AssigneeOptions(MEMBERS_MAP)
        /\ db' = IF accepted
                 THEN [db EXCEPT !.tasks = Append(@,
                          NewTask(PROJECT_ID, selected_sprint_id, NULL,
                                  assigned_to_id))]
                 ELSE db
        /\ cache' = filled
        /\ ev' = [op |-> "add_task", s |-> s, page |-> "main",
                  project |-> PROJECT_ID, task |-> Len(db.tasks) + 1,
                  inserted |-> accepted, msgs |-> MainWriteMsgs(accepted)]
        /\ UNCHANGED <<sess, run>>

\* 'My Progress': the tasks of the member in the selected project.
MA_MyTasks(d, member_id, project_id) ==
    {k \in Rows(d.tasks) :
        /\ d.tasks[k].assigned_to_id = member_id
        /\ d.tasks[k].project_id = project_id}

\* UPDATE tasks SET status = ? WHERE id = ? (line 493).
MA_StatusWrite(task, new_status) == [task EXCEPT !.status = new_status]

MA_UpdateStatus(s, task_id, new_status, accepted) ==
    LET PROJECT_ID == sess[s].selected_project_id
    IN  /\ MA_UserPage(s)
        /\ task_id \in MA_MyTasks(db, sess[s].user_id, PROJECT_ID)
        /\ new_status \in StatusOptions
        /\ new_status # db.tasks[task_id].status
        /\ db' = IF accepted
                 THEN [db EXCEPT !.tasks[task_id] = MA_StatusWrite(@, new_status)]
                 ELSE db
        /\ cache' = CachedGetMaps(cache, db, PROJECT_ID)
        /\ ev' = [op |-> "update_status", s |-> s, page |-> "main",
                  task |-> task_id, status |-> new_status, written |-> accepted,
                  msgs |-> MainWriteMsgs(accepted)]
        /\ UNCHANGED <<sess, run>>

\* ------------------------------------------------------- utils.py caches
\* get_project_maps(_project_id): the one cached entry whatever the argument;
\* a miss reads st.session_state['selected_project_id'].
CachedGetProjectMaps(c, d, selected_project_id) ==
    IF c.get_project_maps.cached
    THEN c
    ELSE [c EXCEPT !.get_project_maps = ProjectMaps(d, selected_project_id)]

\* The entry's ttl of 600 s runs out.
U_CacheExpire ==
    /\ cache.get_project_maps.cached
    /\ cache' = [cache EXCEPT !.get_project_maps = NoEntry]
    /\ ev' = [op |-> "cache_expire"]
    /\ UNCHANGED <<db, sess, run>>

\* ------------------------------------ pages/Manage_Sprints_&_Requirements.py
\* The security check of the page (lines 9-18), the same on
\* Project_Manager_Dashboard.py.
PageAdmin(s) ==
    /\ run[s] = Idle
    /\ LoggedIn(s)
    /\ sess[s].user_type = "admin"
    /\ sess[s].selected_project_id # NULL

ProblemTexts == {"", "problem"}

\* 'Save Problem Statement', then st.rerun().
MS_SaveProblemStatement(s, problem_statement, accepted) ==
    LET PROJECT_ID == sess[s].selected_project_id
    IN  /\ PageAdmin(s)
        /\ PROJECT_ID \in Rows(db.projects)
        /\ db' = IF accepted
                 THEN [db EXCEPT !.projects[PROJECT_ID].problem_statement =
                                     problem_statement]
                 ELSE db
        /\ cache' = CachedGetProjectMaps(cache, db', PROJECT_ID)
        /\ ev' = [op |-> "save_problem_statement", s |-> s, page |-> "manage",
                  project |-> PROJECT_ID, written |-> accepted,
                  msgs |-> UtilsWriteMsgs(accepted) \cup {"success"}]
        /\ UNCHANGED <<sess, run>>

\* add_req_form (tab 1); tabs 2 and 3 of the same run call get_project_maps.
MS_AddRequirement(s, accepted) ==
    LET PROJECT_ID == sess[s].selected_project_id
    IN  /\ PageAdmin(s)
        /\ PROJECT_ID \in Rows(db.projects)
        /\ Len(db.requirements) < MaxRequirements
        /\ db' = IF accepted
                 THEN [db EXCEPT !.requirements = Append(@,
                          [project_id |-> PROJECT_ID, refined_description |-> NullText])]
                 ELSE db
        /\ cache' = CachedGetProjectMaps(cache, db', PROJECT_ID)
        /\ ev' = [op |-> "add_requirement", s |-> s, page |-> "manage",
                  project |-> PROJECT_ID, inserted |-> accepted,
                  msgs |-> UtilsWriteMsgs(accepted) \cup {"success"}]
        /\ UNCHANGED <<sess, run>>

\* add_sprint_form (tab 2), after the tab's get_project_maps.
MS_AddSprint(s, accepted) ==
    LET PROJECT_ID == sess[s].selected_project_id
    IN  /\ PageAdmin(s)
        /\ PROJECT_ID \in Rows(db.projects)
        /\ Len(db.sprints) < MaxSprints
        /\ db' = IF accepted
                 THEN [db EXCEPT !.sprints = Append(@, [project_id |-> PROJECT_ID])]
                 ELSE db
        /\ cache' = CachedGetProjectMaps(cache, db, PROJECT_ID)
        /\ ev' = [op |-> "create_sprint", s |-> s, page |-> "manage",
                  project |-> PROJECT_ID, inserted |-> accepted,
                  msgs |-> UtilsWriteMsgs(accepted) \cup {"success"}]
        /\ UNCHANGED <<sess, run>>

\* add_task_form (tab 3): requirement and assignee are keys of the cached maps,
\* and the form is shown only when both maps are non-empty.
MS_AddTask(s, task_req, task_assignee, accepted) ==
    LET PROJECT_ID == sess[s].selected_project_id
        filled == CachedGetProjectMaps(cache, db, PROJECT_ID)
        maps == filled.get_project_maps
    IN  /\ PageAdmin(s)
        /\ PROJECT_ID \in Rows(db.projects)
        /\ Len(db.tasks) < MaxTasks
        /\ task_req \in maps.requirements
        /\ task_assignee \in maps.members
        /\ db' = IF accepted
                 THEN [db EXCEPT !.tasks = Append(@,
                          NewTask(PROJECT_ID, NULL, task_req, task_assignee))]
                 ELSE db
        /\ cache' = filled
        /\ ev' = [op |-> "add_task", s |-> s, page |-> "manage",
                  project |-> PROJECT_ID, task |-> Len(db.tasks) + 1,
                  inserted |-> accepted,
                  msgs |-> UtilsWriteMsgs(accepted) \cup {"success"}]
        /\ UNCHANGED <<sess, run>>

\* --------------------------------------------- the team-member pages' guard
\* My_Tasks_&_Schedule.py lines 7-14; Doubts_&_Mentoring.py,
\* Submit_Progress_Update.py and AI_&_Resources.py lines 8-16.
PageMember(s) ==
    /\ run[s] = Idle
    /\ LoggedIn(s)
    /\ sess[s].user_type # "admin"
    /\ sess[s].selected_project_id # NULL

\* --------------------------------------------- pages/My_Tasks_&_Schedule.py
\* The page's task query: the member's tasks of the project that JOIN a sprint.
MT_Tasks(d, user_id, project_id) ==
    {k \in Rows(d.tasks) :
        /\ d.tasks[k].assigned_to_id = user_id
        /\ d.tasks[k].project_id = project_id
        /\ d.tasks[k].sprint_id \in Rows(d.sprints)}

\* The UPDATE of lines 80-92: the completion date with 'Done', NULL otherwise.
MT_StatusWrite(task, new_status) ==
    IF new_status = "Done"
    THEN [task EXCEPT !.status = new_status, !.completion_date = Today]
    ELSE [task EXCEPT !.status = new_status, !.completion_date = NullDate]

MT_UpdateStatus(s, task_id, new_status, accepted) ==
    /\ PageMember(s)
    /\ task_id \in MT_Tasks(db, sess[s].user_id, sess[s].selected_project_id)
    /\ new_status \in StatusOptions
    /\ new_status # db.tasks[task_id].status
    /\ db' = IF accepted
             THEN [db EXCEPT !.tasks[task_id] = MT_StatusWrite(@, new_status)]
             ELSE db
    /\ ev' = [op |-> "update_status", s |-> s, page |-> "my_tasks",
              task |-> task_id, status |-> new_status, written |-> accepted,
              msgs |-> UtilsWriteMsgs(accepted) \cup {"success"}]
    /\ UNCHANGED <<sess, run, cache>>

\* ----------------------------------------------------------- task issues
\* A new task_issues row: status takes the column default 'Open'.
NewIssue(task_id, member_id, request_1_on_1) ==
    [task_id |-> task_id, member_id |-> member_id,
     request_1_on_1 |-> request_1_on_1, status |-> "Open"]

\* issue_form of 'My Progress' (main script), one form per task of the member.
MA_RaiseIssue(s, task_id, req_1_on_1, accepted) ==
    LET PROJECT_ID == sess[s].selected_project_id
        member_id == sess[s].user_id
    IN  /\ MA_UserPage(s)
        /\ task_id \in MA_MyTasks(db, member_id, PROJECT_ID)
        /\ Len(db.task_issues) < MaxIssues
        /\ db' = IF accepted
                 THEN [db EXCEPT !.task_issues = Append(@,
                          NewIssue(task_id, member_id, req_1_on_1))]
                 ELSE db
        /\ cache' = CachedGetMaps(cache, db, PROJECT_ID)
        /\ ev' = [op |-> "raise_issue", s |-> s, page |-> "main",
                  issue |-> Len(db.task_issues) + 1, inserted |-> accepted,
                  msgs |-> MainWriteMsgs(accepted)]
        /\ UNCHANGED <<sess, run>>

\* The tasks a member may pick on Doubts_&_Mentoring.py and
\* Submit_Progress_Update.py: assigned to them, of the project, not 'Done'.
ActiveTasks(d, member_id, project_id) ==
    {k \in Rows(d.tasks) :
        /\ d.tasks[k].assigned_to_id = member_id
        /\ d.tasks[k].project_id = project_id
        /\ d.tasks[k].status # "Done"}

\* issue_form of pages/Doubts_&_Mentoring.py.
DM_RaiseIssue(s, task_id, req_1_on_1, accepted) ==
    LET MEMBER_ID == sess[s].user_id
    IN  /\ PageMember(s)
        /\ task_id \in ActiveTasks(db, MEMBER_ID, sess[s].selected_project_id)
        /\ Len(db.task_issues) < MaxIssues
        /\ db' = IF accepted
                 THEN [db EXCEPT !.task_issues = Append(@,
                          NewIssue(task_id, MEMBER_ID, req_1_on_1))]
                 ELSE db
        /\ ev' = [op |-> "raise_issue", s |-> s, page |-> "doubts",
                  issue |-> Len(db.task_issues) + 1, inserted |-> accepted,
                  msgs |-> UtilsWriteMsgs(accepted) \cup {"success"}]
        /\ UNCHANGED <<sess, run, cache>>

\* progress_update_form of pages/Submit_Progress_Update.py.
SP_SubmitUpdate(s, task_id, accepted) ==
    LET MEMBER_ID == sess[s].user_id
    IN  /\ PageMember(s)
        /\ task_id \in ActiveTasks(db, MEMBER_ID, sess[s].selected_project_id)
        /\ Len(db.progress_updates) < MaxUpdates
        /\ db' = IF accepted
                 THEN [db EXCEPT !.progress_updates = Append(@,
                          [task_id |-> task_id, member_id |-> MEMBER_ID])]
                 ELSE db
        /\ ev' = [op |-> "progress_update", s |-> s, page |-> "progress",
                  inserted |-> accepted,
                  msgs |-> UtilsWriteMsgs(accepted) \cup {"success"}]
        /\ UNCHANGED <<sess, run, cache>>

\* The open issues of a project: task_issues JOIN tasks JOIN team_members with
\* the status 'Open' (is_resolved = 0 on Project_Manager_Dashboard.py).
OpenIssues(d, project_id) ==
    {i \in Rows(d.task_issues) :
        /\ d.task_issues[i].status = "Open"
        /\ d.task_issues[i].task_id \in Rows(d.tasks)
        /\ d.tasks[d.task_issues[i].task_id].project_id = project_id
        /\ d.task_issues[i].member_id \in Rows(d.team_members)}

\* Script runs that are between the issue query and their last write.
Responding(s) == run[s].pc \in {"ma_respond_insert", "pmd_respond_insert"}

ResponsesInFlight == Cardinality({s \in Sessions : Responding(s)})

\* A new issue_responses row.  mark_resolved is no column: it records what the
\* submitting form said about resolving ("checked", "unchecked", or "no_flag"
\* for the main script's form, which has no such field).
NewResponse(issue_id, responder_id, mark_resolved) ==
    [issue_id |-> issue_id, responder_id |-> responder_id,
     mark_resolved |-> mark_resolved]

MarkResolved_toggle(issue) ==
    [issue EXCEPT !.status = IF @ = "Open" THEN "Resolved" ELSE "Open"]

\* UPDATE task_issues SET status = 'Resolved' (is_resolved = 1) WHERE id = ?
MarkResolved(issue) == [issue EXCEPT !.status = "Resolved"]

\* ---- main script, 'Task Issues & Support': 'Post Response & Resolve Issue'
\* The run's queries and the submitted form of one open issue.
MA_RespondBegin(s, proj_id_pm, issue_id) ==
    /\ run[s] = Idle
    /\ IsMainAdmin(s)
    /\ proj_id_pm \in Rows(db.projects)
    /\ issue_id \in OpenIssues(db, proj_id_pm)
    /\ Len(db.issue_responses) + ResponsesInFlight < MaxResponses
    /\ run' = [run EXCEPT ![s] = [pc |-> "ma_respond_insert", issue |-> issue_id,
                                  mark_resolved |-> "no_flag"]]
    /\ ev' = [op |-> "respond_begin", s |-> s, page |-> "main",
              issue |-> issue_id]
    /\ UNCHANGED <<db, sess, cache>>

\* The INSERT of lines 351-354; an sqlite3.Error ends the run.
MA_RespondInsert(s, accepted) ==
    /\ run[s].pc = "ma_respond_insert"
    /\ db' = IF accepted
             THEN [db EXCEPT !.issue_responses = Append(@,
                      NewResponse(run[s].issue, sess[s].user_id, "no_flag"))]
             ELSE db
    /\ run' = IF accepted
              THEN [run EXCEPT ![s].pc = "ma_respond_update"]
              ELSE [run EXCEPT ![s] = Idle]
    /\ ev' = [op |-> "respond_insert", s |-> s, page |-> "main",
              issue |-> run[s].issue, inserted |-> accepted,
              mark_resolved |-> "no_flag",
              msgs |-> IF accepted THEN {} ELSE {"exception"}]
    /\ UNCHANGED <<sess, cache>>

\* The UPDATE of line 355, then st.success and st.rerun().
MA_RespondUpdate(s, accepted) ==
    /\ run[s].pc = "ma_respond_update"
    /\ db' = IF accepted
             THEN [db EXCEPT !.task_issues[run[s].issue] = MarkResolved(@)]
             ELSE db
    /\ run' = [run EXCEPT ![s] = Idle]
    /\ ev' = [op |-> "respond_update", s |-> s, page |-> "main",
              issue |-> run[s].issue, written |-> accepted,
              mark_resolved |-> "no_flag", msgs |-> MainWriteMsgs(accepted)]
    /\ UNCHANGED <<sess, cache>>

\* ---- pages/Project_Manager_Dashboard.py, tab 2: response_form
PMD_RespondBegin(s, issue_id, mark_resolved) ==
    LET PROJECT_ID == sess[s].selected_project_id
    IN  /\ PageAdmin(s)
        /\ PROJECT_ID \in Rows(db.projects)
        /\ issue_id \in OpenIssues(db, PROJECT_ID)
        /\ Len(db.issue_responses) + ResponsesInFlight < MaxResponses
        /\ run' = [run EXCEPT ![s] =
                      [pc |-> "pmd_respond_insert", issue |-> issue_id,
                       mark_resolved |-> IF mark_resolved THEN "checked"
                                         ELSE "unchecked"]]
        /\ cache' = CachedGetProjectMaps(cache, db, PROJECT_ID)
        /\ ev' = [op |-> "respond_begin", s |-> s, page |-> "pm_dashboard",
                  issue |-> issue_id]
        /\ UNCHANGED <<db, sess>>

\* The INSERT of lines 126-129 in utils.execute_query: an sqlite3.Error is
\* shown and the run goes on to line 131.
PMD_RespondInsert(s, accepted) ==
    LET go_on == run[s].mark_resolved = "checked"
    IN  /\ run[s].pc = "pmd_respond_insert"
        /\ db' = IF accepted
                 THEN [db EXCEPT !.issue_responses = Append(@,
                          NewResponse(run[s].issue, sess[s].user_id,
                                      run[s].mark_resolved))]
                 ELSE db
        /\ run' = IF go_on
                  THEN [run EXCEPT ![s].pc = "pmd_respond_update"]
                  ELSE [run EXCEPT ![s] = Idle]
        /\ ev' = [op |-> "respond_insert", s |-> s, page |-> "pm_dashboard",
                  issue |-> run[s].issue, inserted |-> accepted,
                  mark_resolved |-> run[s].mark_resolved,
                  msgs |-> UtilsWriteMsgs(accepted) \cup
                           (IF go_on THEN {} ELSE {"success"})]
        /\ UNCHANGED <<sess, cache>>

\* The UPDATE of line 132, then st.success and st.rerun().
PMD_RespondUpdate(s, accepted) ==
    /\ run[s].pc = "pmd_respond_update"
    /\ db' = IF accepted
             THEN [db EXCEPT !.task_issues[run[s].issue] = MarkResolved(@)]
             ELSE db
    /\ run' = [run EXCEPT ![s] = Idle]
    /\ ev' = [op |-> "respond_update", s |-> s, page |-> "pm_dashboard",
              issue |-> run[s].issue, written |-> accepted,
              mark_resolved |-> run[s].mark_resolved,
              msgs |-> UtilsWriteMsgs(accepted) \cup {"success"}]
    /\ UNCHANGED <<sess, cache>>

\* ======================================================== specifications
Identifiers == Usernames \cup Emails

LoginSelections == {"user", "manager_or_admin"}

UserRoles == {"Project Manager", "Team Member"}

\* Every operation of both variants, by any session, from the seeded store.
Next ==
    \/ U_CacheExpire
    \/ \E s \in Sessions, accepted \in BOOLEAN :
        \/ \E id \in Identifiers, pw \in Passwords, sel \in LoginSelections :
              U_Login(s, id, pw, sel)
        \/ U_Logout(s)
        \/ \E id \in Identifiers, pw \in Passwords, ut \in {"user", "admin"} :
              MA_Login(s, id, pw, ut)
        \/ MA_Logout(s)
        \/ \E p \in 1..MaxProjects : MA_SelectProject(s, p)
        \/ \E p \in 1..MaxProjects : MA_PMDashboard(s, p)
        \/ \E name \in ProjectNames : MA_AdminCreateProject(s, name, accepted)
        \/ \E email \in Emails, pw \in Passwords :
              MA_AdminAddUser(s, email, pw, accepted)
        \/ \E u \in 1..MaxMembers, p \in 1..MaxProjects :
              MA_AdminAssignUser(s, u, p, accepted)
        \/ \E name \in ProjectNames, m \in 1..MaxManagers :
              AP_CreateProject(s, name, m, accepted)
        \/ \E role \in UserRoles, name \in Identifiers, pw \in Passwords :
              AP_AddUser(s, role, name, pw, accepted)
        \/ MA_AddRequirement(s, accepted)
        \/ \E reqs \in SUBSET (1..MaxRequirements) :
              MA_CreateSprint(s, reqs, accepted)
        \/ MA_CreateSprintLink(s, accepted)
        \/ \E k \in 1..MaxSprints, m \in 0..MaxMembers :
              MA_AddTask(s, k, m, accepted)
        \/ \E k \in 1..MaxTasks, st \in StatusOptions :
              MA_UpdateStatus(s, k, st, accepted)
        \/ \E text \in ProblemTexts : MS_SaveProblemStatement(s, text, accepted)
        \/ MS_AddRequirement(s, accepted)
        \/ MS_AddSprint(s, accepted)
        \/ \E r \in 1..MaxRequirements, m \in 1..MaxMembers :
              MS_AddTask(s, r, m, accepted)
        \/ \E k \in 1..MaxTasks, st \in StatusOptions :
              MT_UpdateStatus(s, k, st, accepted)
        \/ \E k \in 1..MaxTasks, one \in BOOLEAN :
              MA_RaiseIssue(s, k, one, accepted)
        \/ \E k \in 1..MaxTasks, one \in BOOLEAN :
              DM_RaiseIssue(s, k, one, accepted)
        \/ \E k \in 1..MaxTasks : SP_SubmitUpdate(s, k, accepted)
        \/ \E p \in 1..MaxProjects, i \in 1..MaxIssues :
              MA_RespondBegin(s, p, i)
        \/ MA_RespondInsert(s, accepted)
        \/ MA_RespondUpdate(s, accepted)
        \/ \E i \in 1..MaxIssues, mark_resolved \in BOOLEAN :
              PMD_RespondBegin(s, i, mark_resolved)
        \/ PMD_RespondInsert(s, accepted)
        \/ PMD_RespondUpdate(s, accepted)

Spec == Init /\ [][Next]_vars

\* -------------------------------------------------------------- SpecAuth
\* utils.login_user, utils.logout and the user form of the Admin Panel page.
NextAuth ==
    \E s \in Sessions :
        \/ \E id \in Identifiers, pw \in Passwords, sel \in LoginSelections :
              U_Login(s, id, pw, sel)
        \/ U_Logout(s)
        \/ \E role \in UserRoles, name \in Identifiers, pw \in Passwords,
              accepted \in BOOLEAN :
              AP_AddUser(s, role, name, pw, accepted)

SpecAuth == Init /\ [][NextAuth]_vars

\* ------------------------------------------------------------------ C5
\* C5 as stated: every (identifier, password) that is valid for a row of
\* team_members, super_admins or project_managers logs in under the matching
\* claim, and the session then holds that table's role and that row's id.
RoleTables ==
    {[tbl |-> "team_members", key |-> "email", claim |-> "user",
      role |-> "user"],
     [tbl |-> "super_admins", key |-> "username", claim |-> "manager_or_admin",
      role |-> "super_admin"],
     [tbl |-> "project_managers", key |-> "username",
      claim |-> "manager_or_admin", role |-> "project_manager"]}

ValidFor(rt, i) ==
    /\ db[rt.tbl][i][rt.key] = ev.identifier
    /\ db[rt.tbl][i].password = <<"bcrypt", ev.password>>
    /\ ev.selection = rt.claim

LoggedInAs(s, role, id) ==
    /\ sess[s].logged_in = "true"
    /\ sess[s].user_type = role
    /\ sess[s].user_id = id

C5_EveryValidCredentialLogsIn ==
    ev.op = "u_login" =>
        \A rt \in RoleTables : \A i \in Rows(db[rt.tbl]) :
            ValidFor(rt, i) => ev.ok /\ LoggedInAs(ev.s, rt.role, i)

\* C5 amended: the same, except for a project_managers row whose username is
\* also a username of super_admins (login_user then resolves the super_admins
\* row and never reads the project_managers one).
Shadowed(rt, i) ==
    /\ rt.tbl = "project_managers"
    /\ \E j \in Rows(db.super_admins) :
          db.super_admins[j].username = db.project_managers[i].username

C5_UnshadowedValidCredentialLogsIn ==
    ev.op = "u_login" =>
        \A rt \in RoleTables : \A i \in Rows(db[rt.tbl]) :
            (ValidFor(rt, i) /\ ~Shadowed(rt, i))
                => ev.ok /\ LoggedInAs(ev.s, rt.role, i)

\* A project manager whose username no super admin has logs in.
C5_Witness ==
    /\ ev.op = "u_login"
    /\ ev.ok
    /\ \E i \in Rows(db.project_managers) :
          /\ db.project_managers[i].username = ev.identifier
          /\ db.project_managers[i].username # BootstrapUser
          /\ LoggedInAs(ev.s, "project_manager", i)

\* ------------------------------------------------------------------ C6
\* C6: under manager_or_admin, an identifier that is a super_admins username
\* is decided by the super_admins row alone: the login succeeds exactly when
\* the password is that row's, and then as super_admin with that row's id,
\* whether or not project_managers has the username too.
C6_SuperAdminTakesPrecedence ==
    (ev.op = "u_login" /\ ev.selection = "manager_or_admin") =>
        \A j \in Rows(db.super_admins) :
            (db.super_admins[j].username = ev.identifier
             /\ \A k \in 1..(j - 1) : db.super_admins[k].username # ev.identifier)
            => /\ ev.ok <=> db.super_admins[j].password = <<"bcrypt", ev.password>>
               /\ ev.ok => LoggedInAs(ev.s, "super_admin", j)

\* The username is in both tables and the login succeeded.
C6_Witness ==
    /\ ev.op = "u_login"
    /\ ev.selection = "manager_or_admin"
    /\ ev.ok
    /\ \E j \in Rows(db.super_admins) : db.super_admins[j].username = ev.identifier
    /\ \E i \in Rows(db.project_managers) :
          db.project_managers[i].username = ev.identifier

\* ---------------------------------------------------------- SpecProjects
\* The store after the super admin has created project manager pm1 and the
\* team members alice and bob on the Admin Panel page (AP_AddUser, three
\* times from Init).
UsersDb ==
    [EmptyDb EXCEPT
        !.admins = <<BootstrapRow>>,
        !.super_admins = <<BootstrapRow>>,
        !.project_managers =
            <<[username |-> "pm1", password |-> get_password_hash("pw")]>>,
        !.team_members =
            <<[email |-> "alice@example.com", password |-> get_password_hash("pw")],
              [email |-> "bob@example.com", password |-> get_password_hash("pw")]>>]

InitUsers ==
    /\ db = UsersDb
    /\ sess = [s \in Sessions |-> NewSession]
    /\ run = [s \in Sessions |-> Idle]
    /\ ev = [op |-> "init"]
    /\ cache = EmptyCache

\* Session s1 is the browser of the administrators (the main script's admin
\* and the super admin), s2 that of pm1 and of the team members.
\* Both admin panels create projects and assign members; both selectors of the
\* main script are run.
NextProjects ==
    \/ MA_Login("s1", BootstrapUser, BootstrapPassword, "admin")
    \/ U_Login("s1", BootstrapUser, BootstrapPassword, "manager_or_admin")
    \/ MA_Logout("s1")
    \/ \E name \in ProjectNames, accepted \in BOOLEAN :
          MA_AdminCreateProject("s1", name, accepted)
    \/ \E name \in ProjectNames, m \in 1..MaxManagers, accepted \in BOOLEAN :
          AP_CreateProject("s1", name, m, accepted)
    \/ \E u \in 1..MaxMembers, p \in 1..MaxProjects, accepted \in BOOLEAN :
          MA_AdminAssignUser("s1", u, p, accepted)
    \/ \E p \in 1..MaxProjects : MA_PMDashboard("s1", p)
    \/ \E email \in Emails : MA_Login("s2", email, "pw", "user")
    \/ U_Login("s2", "pm1", "pw", "manager_or_admin")
    \/ MA_Logout("s2")
    \/ \E p \in 1..MaxProjects : MA_SelectProject("s2", p)

SpecProjects == InitUsers /\ [][NextProjects]_vars

\* ------------------------------------------------------------------ C3
\* C3 as stated: a project selector shown to a principal whose role is
\* project_manager lists only projects whose manager_id is the principal's id.
C3_ManagerListsOnlyOwnProjects ==
    (ev.op \in {"ma_select", "ma_pm_dashboard"}
     /\ sess[ev.s].user_type = "project_manager")
        => \A p \in ev.listing : db.projects[p].manager_id = sess[ev.s].user_id

\* ------------------------------------------------------------------ C4
\* C4: the sidebar selector of a logged-in team member lists exactly the
\* projects with a project_members row (project, member); the run stops when
\* there is none and otherwise stores one of the listed projects as
\* selected_project_id; a member without a membership passes no guard of the
\* main script's project pages.
MemberOf(p, member_id) ==
    \E i \in Rows(db.project_members) :
        db.project_members[i] = [project_id |-> p, member_id |-> member_id]

C10_DuplicateProjectIsRefused ==
    /\ (ev.op = "create_project" /\ ev.dup) =>
          /\ ~ev.inserted
          /\ "already_exists" \in ev.msgs
          /\ "success" \notin ev.msgs
    /\ \A i, j \in Rows(db.projects) :
          db.projects[i].name = db.projects[j].name => i = j

\* ------------------------------------------------------------- SpecTasks
\* The store after the super admin has created project 'Alpha' for pm1 on the
\* Admin Panel page and the main script's admin has assigned alice and bob
\* to it (AP_CreateProject, MA_AdminAssignUser twice, from InitUsers).
TasksDb ==
    [UsersDb EXCEPT
        !.projects = <<[name |-> "Alpha", manager_id |-> 1,
                        problem_statement |-> ""]>>,
        !.project_members = <<[project_id |-> 1, member_id |-> 1],
                              [project_id |-> 1, member_id |-> 2]>>]

InitTasks ==
    /\ db = TasksDb
    /\ sess = [s \in Sessions |-> NewSession]
    /\ run = [s \in Sessions |-> Idle]
    /\ ev = [op |-> "init"]
    /\ cache = EmptyCache

\* Session s1 is a browser in which alice and then the admin log in (the
\* main script's logout keeps the selected project), s2 that of bob and of
\* pm1.  s1 works on the Manage page and on the My Tasks page, s2 on the main
\* script's 'Sprints & Tasks' and 'My Progress'.
\* The statuses the sessions pick in the status selectboxes.
StatusInputs == {"In Progress", "Done"}

NextTasks ==
    \/ MA_Login("s1", "alice@example.com", "pw", "user")
    \/ MA_Login("s1", BootstrapUser, BootstrapPassword, "admin")
    \/ MA_Logout("s1")
    \/ MA_SelectProject("s1", 1)
    \/ \E text \in ProblemTexts, accepted \in BOOLEAN :
          MS_SaveProblemStatement("s1", text, accepted)
    \/ \E accepted \in BOOLEAN : MS_AddRequirement("s1", accepted)
    \/ \E accepted \in BOOLEAN : MS_AddSprint("s1", accepted)
    \/ \E r \in 1..MaxRequirements, m \in 1..MaxMembers, accepted \in BOOLEAN :
          MS_AddTask("s1", r, m, accepted)
    \/ \E k \in 1..MaxTasks, st \in StatusInputs, accepted \in BOOLEAN :
          MT_UpdateStatus("s1", k, st, accepted)
    \/ U_CacheExpire
    \/ MA_Login("s2", "bob@example.com", "pw", "user")
    \/ U_Login("s2", "pm1", "pw", "manager_or_admin")
    \/ MA_Logout("s2")
    \/ MA_SelectProject("s2", 1)
    \/ \E accepted \in BOOLEAN : MA_AddRequirement("s2", accepted)
    \/ \E reqs \in SUBSET (1..MaxRequirements), accepted \in BOOLEAN :
          MA_CreateSprint("s2", reqs, accepted)
    \/ \E accepted \in BOOLEAN : MA_CreateSprintLink("s2", accepted)
    \/ \E k \in 1..MaxSprints, m \in 0..MaxMembers, accepted \in BOOLEAN :
          MA_AddTask("s2", k, m, accepted)
    \/ \E k \in 1..MaxTasks, st \in StatusInputs, accepted \in BOOLEAN :
          MA_UpdateStatus("s2", k, st, accepted)

SpecTasks == InitTasks /\ [][NextTasks]_vars

\* ------------------------------------------------------------------ C1
\* C1 as stated: right after a task is created and right after a write of a
\* task's status by either status update, the task has status 'Done' exactly
\* when its completion_date is not null.
C1_DoneIffCompletionDate ==
    /\ (ev.op = "add_task" /\ ev.inserted) =>
          (db.tasks[ev.task].status = "Done"
              <=> db.tasks[ev.task].completion_date # NullDate)
    /\ (ev.op = "update_status" /\ ev.written) =>
          (db.tasks[ev.task].status = "Done"
              <=> db.tasks[ev.task].completion_date # NullDate)

\* ------------------------------------------------------------------ C2
\* C2 as stated: a requirement, sprint or task is created, or the problem
\* statement saved, in project P only by a session whose principal is the
\* project manager with id P.manager_id.
C2_OnlyTheManagerMutates ==
    /\ (ev.op \in {"add_requirement", "create_sprint", "add_task"}
        /\ ev.inserted) =>
          /\ sess[ev.s].user_type = "project_manager"
          /\ sess[ev.s].user_id = db.projects[ev.project].manager_id
    /\ (ev.op = "save_problem_statement" /\ ev.written) =>
          /\ sess[ev.s].user_type = "project_manager"
          /\ sess[ev.s].user_id = db.projects[ev.project].manager_id

\* ------------------------------------------------------------ SpecIssues
\* The store of InitTasks after a sprint and a task for alice were created on
\* the main script's 'Sprints & Tasks' page (MA_CreateSprint, MA_AddTask).
IssuesDb ==
    [TasksDb EXCEPT
        !.sprints = <<[project_id |-> 1]>>,
        !.tasks = <<NewTask(1, 1, NULL, 1)>>]

InitIssues ==
    /\ db = IssuesDb
    /\ sess = [s \in Sessions |-> NewSession]
    /\ run = [s \in Sessions |-> Idle]
    /\ ev = [op |-> "init"]
    /\ cache = EmptyCache

\* What the sessions tick in the issue forms' 'Request 1:1' box (the column
\* is read by no operation modelled here).
OneOnOneInputs == {FALSE}

\* Session s1 is a browser in which alice and then the admin log in: alice
\* raises issues, reports progress and updates her task, the admin answers on
\* the Project_Manager_Dashboard page.  Session s2 is the admin on the main
\* script's 'Task Issues & Support' tab.
NextIssues ==
    \/ MA_Login("s1", "alice@example.com", "pw", "user")
    \/ MA_Login("s1", BootstrapUser, BootstrapPassword, "admin")
    \/ MA_Logout("s1")
    \/ MA_SelectProject("s1", 1)
    \/ \E k \in 1..MaxTasks, one \in OneOnOneInputs, accepted \in BOOLEAN :
          MA_RaiseIssue("s1", k, one, accepted)
    \/ \E k \in 1..MaxTasks, one \in OneOnOneInputs, accepted \in BOOLEAN :
          DM_RaiseIssue("s1", k, one, accepted)
    \/ \E k \in 1..MaxTasks, accepted \in BOOLEAN :
          SP_SubmitUpdate("s1", k, accepted)
    \/ \E k \in 1..MaxTasks, st \in StatusInputs, accepted \in BOOLEAN :
          MT_UpdateStatus("s1", k, st, accepted)
    \/ \E i \in 1..MaxIssues, mark_resolved \in BOOLEAN :
          PMD_RespondBegin("s1", i, mark_resolved)
    \/ \E accepted \in BOOLEAN : PMD_RespondInsert("s1", accepted)
    \/ \E accepted \in BOOLEAN : PMD_RespondUpdate("s1", accepted)
    \/ MA_Login("s2", BootstrapUser, BootstrapPassword, "admin")
    \/ MA_Logout("s2")
    \/ \E i \in 1..MaxIssues : MA_RespondBegin("s2", 1, i)
    \/ \E accepted \in BOOLEAN : MA_RespondInsert("s2", accepted)
    \/ \E accepted \in BOOLEAN : MA_RespondUpdate("s2", accepted)

SpecIssues == InitIssues /\ [][NextIssues]_vars

\* ------------------------------------------------------------------ C7
\* C7: in every step, an issue whose status is 'Resolved' is still 'Resolved'
\* afterwards (no operation opens it again).
C7_ResolvedStaysResolved ==
    [][\A i \in Rows(db.task_issues) :
          db.task_issues[i].status = "Resolved"
              => db.task_issues'[i].status = "Resolved"]_vars

\* Two responders resolved the same issue: the later UPDATE found it resolved.
C7_Witness ==
    /\ ev.op = "respond_update"
    /\ ev.written
    /\ db.task_issues[ev.issue].status = "Resolved"
    /\ \A s \in Sessions : run[s] = Idle
    /\ \E q, r \in Rows(db.issue_responses) :
          /\ q # r
          /\ db.issue_responses[q].issue_id = ev.issue
          /\ db.issue_responses[r].issue_id = ev.issue
          /\ db.issue_responses[q].mark_resolved # "unchecked"
          /\ db.issue_responses[r].mark_resolved # "unchecked"

\* ------------------------------------------------------------------ C8
\* C8 as stated: an issue is set to 'Resolved' only together with a response
\* to that issue whose form asked to resolve (the checked 'Mark as Resolved'
\* box, or the main script's 'Post Response & Resolve Issue' button), and a
\* run whose form did not ask never writes the status.
C8_ResolvedOnlyWithFlaggedResponse ==
    /\ (ev.op = "respond_update" /\ ev.written) =>
          \E r \in Rows(db.issue_responses) :
              /\ db.issue_responses[r].issue_id = ev.issue
              /\ db.issue_responses[r].mark_resolved \in {"checked", "no_flag"}
    /\ \A s \in Sessions :
          run[s].pc \in {"ma_respond_update", "pmd_respond_update"}
              => run[s].mark_resolved # "unchecked"

\* ------------------------------------------------------------------ C9
\* C9 as stated: no state holds a response that asked to resolve while its
\* issue is still 'Open'.
C9_ResponseAndResolveAreAtomic ==
    \A r \in Rows(db.issue_responses) :
        db.issue_responses[r].mark_resolved \in {"checked", "no_flag"}
            => db.task_issues[db.issue_responses[r].issue_id].status = "Resolved"

\* ================================================================ init_db
\* The username utils.init_db looks for before it seeds (line 28); the row it
\* inserts has BootstrapUser (line 31).
BootstrapLookup == "SateeshAmbesange"

\* utils.init_db in session s: skipped once the session holds db_initialized;
\* otherwise the schema script, the lookup, the insert when the lookup found
\* nothing.  Any exception is shown and the run stops before db_initialized
\* is set.
U_InitDb(s) ==
    LET skipped == sess[s].db_initialized
        admin == FetchOneBy(db.super_admins, "username", BootstrapLookup)
        raised == /\ ~skipped
                  /\ admin = NULL
                  /\ UniqueViolation(db.super_admins, "username", BootstrapUser)
        inserted == ~skipped /\ admin = NULL /\ ~raised
    IN  /\ run[s] = Idle
        /\ db' = IF inserted
                 THEN [db EXCEPT !.super_admins = Append(@, BootstrapRow)]
                 ELSE db
        /\ sess' = IF skipped \/ raised
                   THEN sess
                   ELSE [sess EXCEPT ![s].db_initialized = TRUE]
        /\ ev' = [op |-> "init_db", s |-> s, variant |-> "utils",
                  tbl |-> "super_admins", skipped |-> skipped,
                  inserted |-> inserted, error |-> raised]
        /\ UNCHANGED <<run, cache>>

\* init_db of the main script, called by every run (line 122): the lookup and
\* the insert use the same username.
MA_InitDb(s) ==
    LET admin == FetchOneBy(db.admins, "username", BootstrapUser)
        inserted == admin = NULL
    IN  /\ run[s] = Idle
        /\ db' = IF inserted
                 THEN [db EXCEPT !.admins = Append(@, BootstrapRow)]
                 ELSE db
        /\ ev' = [op |-> "init_db", s |-> s, variant |-> "main",
                  tbl |-> "admins", skipped |-> FALSE,
                  inserted |-> inserted, error |-> FALSE]
        /\ UNCHANGED <<sess, run, cache>>

\* The store before any init_db, and sessions that hold nothing.
InitEmpty ==
    /\ db = EmptyDb
    /\ sess = [s \in Sessions |-> NewSession]
    /\ run = [s \in Sessions |-> Idle]
    /\ ev = [op |-> "init"]
    /\ cache = EmptyCache

\* Both init_db, and the logins and logouts of the bootstrap accounts.
NextInit ==
    \E s \in Sessions :
        \/ U_InitDb(s)
        \/ MA_InitDb(s)
        \/ \E pw \in Passwords : U_Login(s, BootstrapUser, pw, "manager_or_admin")
        \/ \E pw \in Passwords : MA_Login(s, BootstrapUser, pw, "admin")
        \/ U_Logout(s)
        \/ MA_Logout(s)

SpecInit == InitEmpty /\ [][NextInit]_vars

\* ------------------------------------------------------------------ C11
\* C11 as stated: no run of init_db ends in an error, and after it the table
\* it seeds holds exactly one row with the bootstrap username.
C11_InitDbIsIdempotent ==
    ev.op = "init_db" =>
        /\ ~ev.error
        /\ Cardinality({i \in Rows(db[ev.tbl]) :
                            db[ev.tbl][i].username = BootstrapUser}) = 1

\* ------------------------------------------------------------ SpecAssign
\* The store of InitUsers after the super admin created 'Alpha' and 'Beta'
\* for pm1, the admin assigned alice to 'Alpha', a requirement was added to
\* 'Alpha' and a sprint was created in it (AP_CreateProject twice,
\* MA_AdminAssignUser, MA_AddRequirement, MA_CreateSprint).
AssignDb ==
    [UsersDb EXCEPT
        !.projects = <<[name |-> "Alpha", manager_id |-> 1,
                        problem_statement |-> ""],
                       [name |-> "Beta", manager_id |-> 1,
                        problem_statement |-> ""]>>,
        !.project_members = <<[project_id |-> 1, member_id |-> 1]>>,
        !.requirements = <<[project_id |-> 1, refined_description |-> NullText]>>,
        !.sprints = <<[project_id |-> 1]>>]

InitAssign ==
    /\ db = AssignDb
    /\ sess = [s \in Sessions |-> NewSession]
    /\ run = [s \in Sessions |-> Idle]
    /\ ev = [op |-> "init"]
    /\ cache = EmptyCache

\* Session s1 is a browser in which alice, bob and the admin log in one
\* after the other (the selected project stays over the main script's
\* logout): the members add tasks on 'Sprints & Tasks', the admin on the
\* Manage page.  Session s2 is the admin assigning members to projects.
NextAssign ==
    \/ \E email \in Emails : MA_Login("s1", email, "pw", "user")
    \/ MA_Login("s1", BootstrapUser, BootstrapPassword, "admin")
    \/ MA_Logout("s1")
    \/ \E p \in 1..MaxProjects : MA_SelectProject("s1", p)
    \/ \E k \in 1..MaxSprints, m \in 0..MaxMembers, accepted \in BOOLEAN :
          MA_AddTask("s1", k, m, accepted)
    \/ \E r \in 1..MaxRequirements, m \in 1..MaxMembers, accepted \in BOOLEAN :
          MS_AddTask("s1", r, m, accepted)
    \/ U_CacheExpire
    \/ MA_Login("s2", BootstrapUser, BootstrapPassword, "admin")
    \/ \E u \in 1..MaxMembers, p \in 1..MaxProjects, accepted \in BOOLEAN :
          MA_AdminAssignUser("s2", u, p, accepted)

SpecAssign == InitAssign /\ [][NextAssign]_vars

\* ------------------------------------------------------------------ C12
\* C12 as stated: a task row that a task-creation form has just inserted is
\* assigned to a member of the task's project.
C12_AssigneeIsProjectMember ==
    (ev.op = "add_task" /\ ev.inserted) =>
        MemberOf(db.tasks[ev.task].project_id, db.tasks[ev.task].assigned_to_id)

\* ========================================================= cached readers
\* The session's assistant API key is entered 'in the sidebar on the main
\* page' (Manage_Sprints_&_Requirements.py line 30, AI_&_Resources.py line
\* 46); that sidebar is not among the sources.  Specification section 5: a
\* user-supplied secret held only in session memory.
ApiKeys == {"gsk_1", "gsk_2"}

SetGroqApiKey(s, key) ==
    /\ run[s] = Idle
    /\ LoggedIn(s)
    /\ key \in ApiKeys
    /\ sess' = [sess EXCEPT ![s].groq_api_key = key]
    /\ ev' = [op |-> "set_api_key", s |-> s]
    /\ UNCHANGED <<db, run, cache>>

\* A run of Manage_Sprints_&_Requirements.py in which no button is pressed:
\* tabs 2 and 3 call get_project_maps(PROJECT_ID).
MS_View(s) ==
    LET PROJECT_ID == sess[s].selected_project_id
        filled == CachedGetProjectMaps(cache, db, PROJECT_ID)
    IN  /\ PageAdmin(s)
        /\ PROJECT_ID \in Rows(db.projects)
        /\ cache' = filled
        /\ ev' = [op |-> "get_project_maps", s |-> s, page |-> "manage",
                  returned |-> filled.get_project_maps]
        /\ UNCHANGED <<db, sess, run>>

\* A run of Project_Manager_Dashboard.py: get_project_maps(PROJECT_ID), line 27.
PMD_View(s) ==
    LET PROJECT_ID == sess[s].selected_project_id
        filled == CachedGetProjectMaps(cache, db, PROJECT_ID)
    IN  /\ PageAdmin(s)
        /\ PROJECT_ID \in Rows(db.projects)
        /\ cache' = filled
        /\ ev' = [op |-> "get_project_maps", s |-> s, page |-> "pm_dashboard",
                  returned |-> filled.get_project_maps]
        /\ UNCHANGED <<db, sess, run>>

\* get_project_context(_project_id) under @st.cache_data(ttl=600): the one
\* entry whatever the argument; a miss computes the context of the argument.
CachedGetProjectContext(c, d, project_id) ==
    IF c.get_project_context.cached
    THEN c
    ELSE [c EXCEPT !.get_project_context = ProjectContext(d, project_id)]

\* The entry's ttl of 600 s runs out.
AI_ContextExpire ==
    /\ cache.get_project_context.cached
    /\ cache' = [cache EXCEPT !.get_project_context = NoContext]
    /\ ev' = [op |-> "context_expire"]
    /\ UNCHANGED <<db, sess, run>>

\* AI_&_Resources.py, tab 1: a question about one of the member's active
\* tasks; the prompt is built from get_project_context(PROJECT_ID).
AI_Ask(s, selected_task_id) ==
    LET PROJECT_ID == sess[s].selected_project_id
        MEMBER_ID == sess[s].user_id
        filled == CachedGetProjectContext(cache, db, PROJECT_ID)
    IN  /\ PageMember(s)
        /\ PROJECT_ID \in Rows(db.projects)
        /\ sess[s].groq_api_key # Absent
        /\ selected_task_id \in ActiveTasks(db, MEMBER_ID, PROJECT_ID)
        /\ cache' = filled
        /\ ev' = [op |-> "get_project_context", s |-> s, page |-> "ai",
                  returned |-> filled.get_project_context]
        /\ UNCHANGED <<db, sess, run>>

\* ------------------------------------------------------------- SpecCache
\* The store of InitUsers after 'Alpha' and 'Beta' were created, alice was
\* assigned to 'Alpha' and bob to 'Beta', and each was given a task in a
\* sprint of 'Alpha' (AP_CreateProject, MA_AdminAssignUser, MA_CreateSprint,
\* MA_AddTask; MS_AddTask for the task of 'Beta').
CacheDb ==
    [UsersDb EXCEPT
        !.projects = <<[name |-> "Alpha", manager_id |-> 1,
                        problem_statement |-> ""],
                       [name |-> "Beta", manager_id |-> 1,
                        problem_statement |-> ""]>>,
        !.project_members = <<[project_id |-> 1, member_id |-> 1],
                              [project_id |-> 2, member_id |-> 2]>>,
        !.requirements = <<[project_id |-> 2, refined_description |-> NullText]>>,
        !.sprints = <<[project_id |-> 1]>>,
        !.tasks = <<NewTask(1, 1, NULL, 1), NewTask(2, NULL, 1, 2)>>]

InitCache ==
    /\ db = CacheDb
    /\ sess = [s \in Sessions |-> NewSession]
    /\ run = [s \in Sessions |-> Idle]
    /\ ev = [op |-> "init"]
    /\ cache = EmptyCache

\* s1 is the browser of alice ('Alpha'), s2 that of bob ('Beta'); in each the
\* admin logs in after the member (the main script's logout keeps the
\* selected project) and opens the Manage and Project Manager Dashboard pages.
NextCache ==
    \/ MA_Login("s1", "alice@example.com", "pw", "user")
    \/ MA_Login("s2", "bob@example.com", "pw", "user")
    \/ \E s \in Sessions :
        \/ MA_Login(s, BootstrapUser, BootstrapPassword, "admin")
        \/ MA_Logout(s)
        \/ \E p \in 1..MaxProjects : MA_SelectProject(s, p)
        \/ SetGroqApiKey(s, "gsk_1")
        \/ MS_View(s)
        \/ PMD_View(s)
        \/ \E k \in 1..MaxTasks : AI_Ask(s, k)
    \/ U_CacheExpire
    \/ AI_ContextExpire

SpecCache == InitCache /\ [][NextCache]_vars

\* ------------------------------------------------------------------ C13
\* C13 as stated: what get_project_maps and get_project_context return in a
\* session was computed for that session's own selected_project_id.
C13_CachedReadsAreOwnProject ==
    ev.op \in {"get_project_maps", "get_project_context"} =>
        ev.returned.project_id = sess[ev.s].selected_project_id

\* ===================================== Manage page: refine, save, generate
\* What the assistant streams, and what the manager may have typed over it
\* in the 'AI-Generated Refinement' text area before saving.
RawStream == "raw stream"

EditedTexts == {"edited", ""}

StreamOutcomes == {"complete", "failed"}

\* The requirements the selectbox of tab 1 offers (the query of line 87).
RefinableRequirements(d, project_id) ==
    {r \in Rows(d.requirements) : d.requirements[r].project_id = project_id}
        \cap (1..MaxDraftKeys)

\* get_ai_response followed by st.write_stream: no key in the session gives
\* an error and None; a stream that fails (or is cut) raises before the session
\* key is assigned; a complete stream is the value assigned.
AiResponse(s, stream) ==
    IF sess[s].groq_api_key = Absent THEN "no_api_key"
    ELSE IF stream = "complete" THEN "streamed"
    ELSE "failed"

\* 'Refine Requirement with AI' (lines 107-124).
MS_Refine(s, selected_req_id, stream) ==
    LET PROJECT_ID == sess[s].selected_project_id
        ai_response == AiResponse(s, stream)
    IN  /\ PageAdmin(s)
        /\ PROJECT_ID \in Rows(db.projects)
        /\ selected_req_id \in RefinableRequirements(db, PROJECT_ID)
        /\ sess' = IF ai_response = "streamed"
                   THEN [sess EXCEPT ![s].refined[selected_req_id] = RawStream]
                   ELSE sess
        /\ cache' = CachedGetProjectMaps(cache, db, PROJECT_ID)
        /\ ev' = [op |-> "refine", s |-> s, page |-> "manage",
                  req |-> selected_req_id, outcome |-> ai_response]
        /\ UNCHANGED <<db, run>>

\* (an UPDATE without its WHERE clause)
RefinedDescriptionWrite_nowhere(requirements, selected_req_id, refined_text) ==
    [r \in Rows(requirements) |->
        [requirements[r] EXCEPT !.refined_description = refined_text]]

\* UPDATE requirements SET refined_description = ? WHERE id = ? (line 129).
RefinedDescriptionWrite(requirements, selected_req_id, refined_text) ==
    [requirements EXCEPT ![selected_req_id].refined_description = refined_text]

\* 'Save Refined Description' (lines 126-132): shown while the session holds
\* the draft; refined_text is what the text area holds, the draft or the
\* manager's edit of it.  utils.execute_query reports an error and goes on:
\* the draft is deleted and the success is shown either way.
MS_SaveRefined(s, selected_req_id, refined_text, accepted) ==
    LET PROJECT_ID == sess[s].selected_project_id
    IN  /\ PageAdmin(s)
        /\ PROJECT_ID \in Rows(db.projects)
        /\ selected_req_id \in RefinableRequirements(db, PROJECT_ID)
        /\ sess[s].refined[selected_req_id] # Absent
        /\ refined_text \in {sess[s].refined[selected_req_id]} \cup EditedTexts
        /\ db' = IF accepted
                 THEN [db EXCEPT !.requirements =
                          RefinedDescriptionWrite(@, selected_req_id, refined_text)]
                 ELSE db
        /\ sess' = [sess EXCEPT ![s].refined[selected_req_id] = Absent]
        /\ cache' = CachedGetProjectMaps(cache, db', PROJECT_ID)
        /\ ev' = [op |-> "save_refined", s |-> s, page |-> "manage",
                  req |-> selected_req_id, text |-> refined_text,
                  draft |-> sess[s].refined[selected_req_id],
                  written |-> accepted,
                  msgs |-> UtilsWriteMsgs(accepted) \cup {"success"}]
        /\ UNCHANGED run

GenerateAvailable_always(req_details) == TRUE

\* if req_details['refined_description']: (line 134) -- neither NULL nor empty.
GenerateAvailable(req_details) ==
    req_details.refined_description \notin {NullText, ""}

\* 'Generate Tasks from Refinement' (lines 134-148): the streamed list is kept
\* in the session and shown for review.
MS_GenerateTasks(s, selected_req_id, stream) ==
    LET PROJECT_ID == sess[s].selected_project_id
        ai_response == AiResponse(s, stream)
    IN  /\ PageAdmin(s)
        /\ PROJECT_ID \in Rows(db.projects)
        /\ selected_req_id \in RefinableRequirements(db, PROJECT_ID)
        /\ GenerateAvailable(db.requirements[selected_req_id])
        /\ sess' = IF ai_response = "streamed"
                   THEN [sess EXCEPT ![s].tasks[selected_req_id] = RawStream]
                   ELSE sess
        /\ cache' = CachedGetProjectMaps(cache, db, PROJECT_ID)
        /\ ev' = [op |-> "generate_tasks", s |-> s, page |-> "manage",
                  req |-> selected_req_id, outcome |-> ai_response]
        /\ UNCHANGED <<db, run>>

\* ------------------------------------------------------------ SpecRefine
\* The store of InitUsers after 'Alpha' was created for pm1, alice was
\* assigned to it and two requirements were added to it.
RefineDb ==
    [UsersDb EXCEPT
        !.projects = <<[name |-> "Alpha", manager_id |-> 1,
                        problem_statement |-> ""]>>,
        !.project_members = <<[project_id |-> 1, member_id |-> 1]>>,
        !.requirements = <<[project_id |-> 1, refined_description |-> NullText],
                           [project_id |-> 1, refined_description |-> NullText]>>]

InitRefine ==
    /\ db = RefineDb
    /\ sess = [s \in Sessions |-> NewSession]
    /\ run = [s \in Sessions |-> Idle]
    /\ ev = [op |-> "init"]
    /\ cache = EmptyCache

\* Session s1 is a browser in which alice and then the admin log in (the
\* main script's logout keeps the selected project); the admin works on
\* tab 1 and tab 3 of the Manage page, and the session ends by either logout.
NextRefine ==
    \/ MA_Login("s1", "alice@example.com", "pw", "user")
    \/ MA_Login("s1", BootstrapUser, BootstrapPassword, "admin")
    \/ MA_Logout("s1")
    \/ U_Logout("s1")
    \/ MA_SelectProject("s1", 1)
    \/ SetGroqApiKey("s1", "gsk_1")
    \/ \E r \in 1..MaxDraftKeys, stream \in StreamOutcomes :
          MS_Refine("s1", r, stream)
    \/ \E r \in 1..MaxDraftKeys, text \in {RawStream} \cup EditedTexts,
          accepted \in BOOLEAN :
          MS_SaveRefined("s1", r, text, accepted)
    \/ \E r \in 1..MaxDraftKeys, stream \in StreamOutcomes :
          MS_GenerateTasks("s1", r, stream)
    \/ \E r \in 1..MaxDraftKeys, m \in 1..MaxMembers, accepted \in BOOLEAN :
          MS_AddTask("s1", r, m, accepted)
    \/ U_CacheExpire

SpecRefine == InitRefine /\ [][NextRefine]_vars

\* ------------------------------------------------------------------ C14
\* C14: a step changes a requirement's refined_description only when it is
\* the 'Save Refined Description' step for that requirement; the refine step,
\* whatever its stream does, and the end of a session leave the store as it is.
C14_RefinedChangesOnlyOnSave ==
    [][/\ \A r \in Rows(db.requirements) :
              db.requirements'[r].refined_description
                  # db.requirements[r].refined_description
              => ev'.op = "save_refined" /\ ev'.req = r
       /\ ev'.op \in {"refine", "u_logout", "ma_logout"} => db' = db]_vars

\* A refinement was streamed for a requirement whose refined_description is
\* still NULL, after another requirement's refinement had been saved.
C14_Witness ==
    /\ ev.op = "refine"
    /\ ev.outcome = "streamed"
    /\ sess[ev.s].refined[ev.req] = RawStream
    /\ db.requirements[ev.req].refined_description = NullText
    /\ \E r \in Rows(db.requirements) :
          r # ev.req /\ db.requirements[r].refined_description = "edited"

\* ------------------------------------------------------------------ C15
\* C15 as stated: after 'Save Refined Description' for requirement r, the
\* refined_description of r is not null and is the text the draft field held
\* at the save, and the session no longer holds the draft of r.
C15_SavedTextIsTheDraftField ==
    ev.op = "save_refined" =>
        /\ db.requirements[ev.req].refined_description # NullText
        /\ db.requirements[ev.req].refined_description = ev.text
        /\ sess[ev.s].refined[ev.req] = Absent

\* ------------------------------------------------------------------ C16
\* C16: 'generate tasks' acts only on a requirement whose saved
\* refined_description is neither null nor empty and leaves the tasks table
\* as it is; a step that changes the tasks table is a step of a task-creation
\* form.
C16_GenerateNeverCreatesTasks ==
    [][/\ ev'.op = "generate_tasks" =>
              /\ db'.tasks = db.tasks
              /\ db.requirements[ev'.req].refined_description \notin {NullText, ""}
       /\ db'.tasks # db.tasks => ev'.op = "add_task"]_vars

\* A task list was streamed into the session and the tasks table is empty.
C16_Witness ==
    /\ ev.op = "generate_tasks"
    /\ ev.outcome = "streamed"
    /\ sess[ev.s].tasks[ev.req] = RawStream
    /\ db.tasks = << >>

\* ------------------------------------------------------------ SpecLogout
\* Both logins and both logouts in either session, with the API key entered
\* and a project selected in between, over the store of InitRefine.
NextLogout ==
    \E s \in Sessions :
        \/ \E id \in {"alice@example.com", BootstrapUser}, pw \in Passwords,
              sel \in LoginSelections :
              U_Login(s, id, pw, sel)
        \/ \E id \in {"alice@example.com", BootstrapUser}, pw \in Passwords,
              ut \in {"user", "admin"} :
              MA_Login(s, id, pw, ut)
        \/ \E key \in ApiKeys : SetGroqApiKey(s, key)
        \/ MA_SelectProject(s, 1)
        \/ U_Logout(s)
        \/ MA_Logout(s)

SpecLogout == InitRefine /\ [][NextLogout]_vars

\* ------------------------------------------------------------------ C17
\* C17: after either logout the session has logged_in False and neither
\* user_type nor user_info, and an API key that was set before the logout is
\* in the session with the value it had.
C17_LogoutKeepsApiKey ==
    [][ev'.op \in {"u_logout", "ma_logout"}
       => /\ sess'[ev'.s].logged_in = "false"
          /\ sess'[ev'.s].user_type = Absent
          /\ sess'[ev'.s].user_id = NULL
          /\ sess[ev'.s].groq_api_key # Absent
             => sess'[ev'.s].groq_api_key = sess[ev'.s].groq_api_key]_vars

\* utils.logout has just run in a session that had entered an API key and
\* selected a project: the key is there, the selection is gone.
C17_Witness ==
    /\ ev.op = "u_logout"
    /\ sess[ev.s].logged_in = "false"
    /\ sess[ev.s].user_type = Absent
    /\ sess[ev.s].groq_api_key \in ApiKeys
    /\ sess[ev.s].selected_project_id = NULL
    /\ \E o \in Sessions \ {ev.s} :
          /\ sess[o].logged_in = "false"
          /\ sess[o].groq_api_key \in ApiKeys
          /\ sess[o].selected_project_id # NULL

\* ------------------------------------------------------------------ C18
\* C18: a login that fails, because the identifier is in no row of the table
\* looked up or because the password does not verify against the row found,
\* returns False and leaves the session and the store as they were; the main
\* script's form then shows the one error text of its tab in both cases.
C18_FailedLoginIsGeneric ==
    [][ev'.op \in {"u_login", "ma_login"} /\ ~ev'.ok
       => /\ sess' = sess
          /\ db' = db
          /\ ev'.op = "ma_login"
             => ev'.msgs = {IF ev'.selection = "admin"
                            THEN "Invalid admin username or password."
                            ELSE "Invalid email or password."}]_vars

\* A member whose email is in team_members has just typed a wrong password
\* into the main script's user form, in a session that was logged out before.
C18_Witness ==
    /\ ev.op = "ma_login"
    /\ ~ev.ok
    /\ ev.selection = "user"
    /\ FetchOneBy(db.team_members, "email", ev.identifier) # NULL
    /\ ev.password # "pw"
    /\ ev.msgs = {"Invalid email or password."}
    /\ sess[ev.s].logged_in = "false"
    /\ sess[ev.s].user_type = Absent

\* ------------------------------------------------------------------ C19
\* C19 as stated: when a write of new_sprint_form's submit fails, the data is
\* as it was before the submit: the sprint row of that submit is not in the
\* store, and no sprint_requirements row refers to it.
C19_SprintCreationIsAllOrNothing ==
    [][ev'.op = "create_sprint_link" /\ ~ev'.inserted
       => /\ run[ev'.s].sprint_id \notin Rows(db'.sprints)
          /\ \A i \in Rows(db'.sprint_requirements) :
                db'.sprint_requirements[i].sprint_id # run[ev'.s].sprint_id]_vars

\* ------------------------------------------------------------------ C20
\* C20 as stated: a create-user request whose project manager username or team
\* member email is already in its table inserts no row and reports
\* already-exists and no success; and success is reported by a create-user
\* request only when its row was inserted.
C20_DuplicateUserIsRefused ==
    ev.op = "add_user"
    => /\ ev.dup => /\ ~ev.inserted
                    /\ "already_exists" \in ev.msgs
                    /\ "success" \notin ev.msgs
       /\ "success" \in ev.msgs => ev.inserted

\* ------------------------------- pages/Admin_Panel.py: assign_member_form
\* The members of team_members that the page's query (lines 115-121) does not
\* find assigned to the project: the options of 'Select Member to Add'.
UnassignedMembers(d, project_id) ==
    {m \in Rows(d.team_members) : ~MembershipExists(d, project_id, m)}

\* A run of tab 3 that shows assign_member_form for a project and a member
\* picked in it; nothing is written.
AP_AssignRender(s, selected_project_id, member_to_add) ==
    /\ run[s] = Idle
    /\ IsSuperAdmin(s)
    /\ selected_project_id \in Rows(db.projects)
    /\ member_to_add \in UnassignedMembers(db, selected_project_id)
    /\ run' = [run EXCEPT ![s] = [pc |-> "ap_assign",
                                  project |-> selected_project_id,
                                  member |-> member_to_add]]
    /\ ev' = [op |-> "assign_render", s |-> s, page |-> "admin_panel"]
    /\ UNCHANGED <<db, sess, cache>>

\* (a submit whose row the store takes without looking at the pair)
AP_AssignMember_unchecked(s, member_to_add, accepted) ==
    LET selected_project_id == run[s].project
    IN  /\ run[s].pc = "ap_assign"
        /\ member_to_add = run[s].member
        /\ Len(db.project_members) < MaxMemberships
        /\ db' = IF accepted
                 THEN [db EXCEPT !.project_members = Append(@,
                          [project_id |-> selected_project_id,
                           member_id |-> member_to_add])]
                 ELSE db
        /\ run' = [run EXCEPT ![s] = Idle]
        /\ ev' = [op |-> "assign", s |-> s, page |-> "admin_panel",
                  dup |-> FALSE, inserted |-> accepted,
                  msgs |-> UtilsWriteMsgs(accepted) \cup {"success"}]
        /\ UNCHANGED <<sess, cache>>

\* The run of the submit.  The options are computed again from the store.
\* The member inserted is the one picked, or, when another session assigned
\* that member in the meantime, the picked one (the commit fell between this
\* run's query and its INSERT) or one of the options now shown.  The INSERT
\* goes through utils.execute_query; st.success follows whatever it returned.
AP_AssignMember(s, member_to_add, accepted) ==
    LET selected_project_id == run[s].project
        unassigned_members == UnassignedMembers(db, selected_project_id)
        dup == MembershipExists(db, selected_project_id, member_to_add)
        inserted == accepted /\ ~dup
    IN  /\ run[s].pc = "ap_assign"
        /\ member_to_add \in IF run[s].member \in unassigned_members
                             THEN {run[s].member}
                             ELSE unassigned_members \cup {run[s].member}
        /\ Len(db.project_members) < MaxMemberships
        /\ db' = IF inserted
                 THEN [db EXCEPT !.project_members = Append(@,
                          [project_id |-> selected_project_id,
                           member_id |-> member_to_add])]
                 ELSE db
        /\ run' = [run EXCEPT ![s] = Idle]
        /\ ev' = [op |-> "assign", s |-> s, page |-> "admin_panel",
                  dup |-> dup, inserted |-> inserted,
                  msgs |-> UtilsWriteMsgs(inserted) \cup {"success"}]
        /\ UNCHANGED <<sess, cache>>

\* ----------------------------------------------------------- SpecMembers
\* The store of InitAssign before any member was assigned.
MembersDb == [AssignDb EXCEPT !.project_members = << >>]

InitMembers ==
    /\ db = MembersDb
    /\ sess = [s \in Sessions |-> NewSession]
    /\ run = [s \in Sessions |-> Idle]
    /\ ev = [op |-> "init"]
    /\ cache = EmptyCache

\* Either session is the super admin on the Admin Panel page or the admin of
\* the main script; both assign members to projects.
NextMembers ==
    \E s \in Sessions :
        \/ U_Login(s, BootstrapUser, BootstrapPassword, "manager_or_admin")
        \/ MA_Login(s, BootstrapUser, BootstrapPassword, "admin")
        \/ U_Logout(s)
        \/ \E p \in 1..MaxProjects, m \in 1..MaxMembers : AP_AssignRender(s, p, m)
        \/ \E m \in 1..MaxMembers, accepted \in BOOLEAN :
              AP_AssignMember(s, m, accepted)
        \/ \E u \in 1..MaxMembers, p \in 1..MaxProjects, accepted \in BOOLEAN :
              MA_AdminAssignUser(s, u, p, accepted)

SpecMembers == InitMembers /\ [][NextMembers]_vars

\* ------------------------------------------------------------------ C21
\* C21: in every reachable state no two rows of project_members have the
\* same project and the same member.
C21_OneMembershipPerPair ==
    \A i, j \in Rows(db.project_members) :
        (/\ db.project_members[i].project_id = db.project_members[j].project_id
         /\ db.project_members[i].member_id = db.project_members[j].member_id)
        => i = j

\* The super admin has just submitted assign_member_form for a member that
\* another session assigned to the project after the form was shown: the
\* store refused the row and the pair is there once.
C21_Witness ==
    /\ ev.op = "assign"
    /\ ev.page = "admin_panel"
    /\ ev.dup
    /\ ~ev.inserted
    /\ Len(db.project_members) = 1

\* ------------------------------------------------------------ SpecDoubts
\* Either session logs in through the main script (alice, bob, the admin) or
\* through utils.login_user (pm1, the super admin), picks a project in the
\* main script's sidebar and raises issues on 'My Progress' and on the
\* Doubts & Mentoring page, over the store of InitIssues.
NextDoubts ==
    \E s \in Sessions :
        \/ \E email \in Emails : MA_Login(s, email, "pw", "user")
        \/ MA_Login(s, BootstrapUser, BootstrapPassword, "admin")
        \/ \E id \in Usernames, pw \in Passwords :
              U_Login(s, id, pw, "manager_or_admin")
        \/ MA_Logout(s)
        \/ MA_SelectProject(s, 1)
        \/ \E k \in 1..MaxTasks, one \in BOOLEAN, accepted \in BOOLEAN :
              MA_RaiseIssue(s, k, one, accepted)
        \/ \E k \in 1..MaxTasks, one \in BOOLEAN, accepted \in BOOLEAN :
              DM_RaiseIssue(s, k, one, accepted)

SpecDoubts == InitIssues /\ [][NextDoubts]_vars

\* ------------------------------------------------------------------ C22
\* C22 as stated: an issue that has just been inserted was raised by a session
\* whose role is team member, has that member's id as member_id, and is about
\* a task assigned to that member in the session's selected project.
C22_IssueRaisedByAssignedMember ==
    (ev.op = "raise_issue" /\ ev.inserted)
    => /\ sess[ev.s].user_type = "user"
       /\ db.task_issues[ev.issue].member_id = sess[ev.s].user_id
       /\ db.tasks[db.task_issues[ev.issue].task_id].assigned_to_id
             = db.task_issues[ev.issue].member_id
       /\ db.tasks[db.task_issues[ev.issue].task_id].project_id
             = sess[ev.s].selected_project_id

\* ------------------------------------------ main script: Sprint Dashboard
\* SELECT * FROM tasks WHERE sprint_id = ? (line 379).
SprintTasks(d, sprint_id) == {k \in Rows(d.tasks) : d.tasks[k].sprint_id = sprint_id}

\* (a dashboard that computes and shows the ratio whatever the task count)
SprintProgress_unguarded(d, sprint_tasks) ==
    LET total_tasks == Cardinality(sprint_tasks)
        done_tasks == Cardinality({k \in sprint_tasks : d.tasks[k].status = "Done"})
    IN  [bar |-> TRUE, divided |-> TRUE, num |-> done_tasks, den |-> total_tasks]

\* Lines 380-386: with tasks, progress = done_tasks / total_tasks (the quotient
\* is kept as numerator and denominator) and st.progress; without, st.info.
\* divided tells whether the division was evaluated.
SprintProgress(d, sprint_tasks) ==
    LET total_tasks == Cardinality(sprint_tasks)
        done_tasks == Cardinality({k \in sprint_tasks : d.tasks[k].status = "Done"})
    IN  IF sprint_tasks # {}
        THEN IF total_tasks > 0
             THEN [bar |-> TRUE, divided |-> TRUE,
                   num |-> done_tasks, den |-> total_tasks]
             ELSE [bar |-> TRUE, divided |-> FALSE, num |-> 0, den |-> 1]
        ELSE [bar |-> FALSE, divided |-> FALSE, num |-> 0, den |-> 1]

\* A run of the 'Sprint Dashboard' page with a sprint of the project picked.
MA_SprintDashboard(s, selected_sprint_id) ==
    LET PROJECT_ID == sess[s].selected_project_id
        sprint_tasks == SprintTasks(db, selected_sprint_id)
    IN  /\ MA_UserPage(s)
        /\ selected_sprint_id \in ProjectSprints(db, PROJECT_ID)
        /\ cache' = CachedGetMaps(cache, db, PROJECT_ID)
        /\ ev' = [op |-> "sprint_dashboard", s |-> s, page |-> "main",
                  sprint |-> selected_sprint_id,
                  progress |-> SprintProgress(db, sprint_tasks)]
        /\ UNCHANGED <<db, sess, run>>

\* ------------------------------------------------------------ SpecSprint
\* alice and bob, members of 'Alpha', work in the main script: a sprint is
\* created, tasks are added to it and their statuses updated, and the sprint
\* dashboard is opened in between (store of InitTasks).
NextSprint ==
    \/ MA_Login("s1", "alice@example.com", "pw", "user")
    \/ MA_Login("s2", "bob@example.com", "pw", "user")
    \/ \E s \in Sessions :
        \/ MA_SelectProject(s, 1)
        \/ \E accepted \in BOOLEAN : MA_CreateSprint(s, {}, accepted)
        \/ \E k \in 1..MaxSprints, m \in 1..MaxMembers, accepted \in BOOLEAN :
              MA_AddTask(s, k, m, accepted)
        \/ \E k \in 1..MaxTasks, st \in StatusOptions, accepted \in BOOLEAN :
              MA_UpdateStatus(s, k, st, accepted)
        \/ \E k \in 1..MaxSprints : MA_SprintDashboard(s, k)

SpecSprint == InitTasks /\ [][NextSprint]_vars

\* ------------------------------------------------------------------ C23
\* C23: a sprint dashboard run for a sprint without tasks shows no progress
\* bar and evaluates no division; for a sprint with n > 0 tasks it shows the
\* bar with the quotient (number of the sprint's tasks with status 'Done') / n,
\* which is at least 0 and at most 1.
C23_SprintRatio ==
    ev.op = "sprint_dashboard"
    => LET of_sprint == {k \in Rows(db.tasks) : db.tasks[k].sprint_id = ev.sprint}
           n == Cardinality(of_sprint)
           done == Cardinality({k \in of_sprint : db.tasks[k].status = "Done"})
       IN  /\ n = 0 => ~ev.progress.bar /\ ~ev.progress.divided
           /\ n > 0 => /\ ev.progress.bar
                       /\ ev.progress.divided
                       /\ ev.progress.den = n
                       /\ ev.progress.num = done
                       /\ 0 <= ev.progress.num
                       /\ ev.progress.num <= ev.progress.den

\* The dashboard has just shown 1/2 for a sprint with one of two tasks done.
C23_Witness ==
    /\ ev.op = "sprint_dashboard"
    /\ ev.progress.bar
    /\ ev.progress.num = 1
    /\ ev.progress.den = 2

\* ------------------------------------------------------ the issue queues
\* The rows of a result set S in ascending order of their sort key (no two
\* rows have the same key).
OrderedBy(S, key) ==
    CHOOSE q \in [1..Cardinality(S) -> S] :
        /\ \A x \in S : \E i \in 1..Cardinality(S) : q[i] = x
        /\ \A i, j \in 1..Cardinality(S) : i < j => key[q[i]] < key[q[j]]

\* Project_Manager_Dashboard.py lines 92-100: ORDER BY ti.needs_meeting DESC,
\* ti.created_at ASC (created_at grows with the row id).
PMD_OpenIssues(d, project_id) ==
    LET rows == OpenIssues(d, project_id)
        key == [i \in rows |->
                   (IF d.task_issues[i].request_1_on_1 THEN 0
                    ELSE Len(d.task_issues)) + i]
    IN  OrderedBy(rows, key)

\* Main script lines 331-337: no ORDER BY, the rows come as the scan of
\* task_issues meets them (row id order).
MA_OpenIssues(d, proj_id_pm) ==
    LET rows == OpenIssues(d, proj_id_pm)
    IN  OrderedBy(rows, [i \in rows |-> i])

\* Main script lines 319-325: the same joins with request_1_on_1 = 1.
MA_MeetingRequests(d, proj_id_pm) ==
    LET rows == {i \in OpenIssues(d, proj_id_pm) : d.task_issues[i].request_1_on_1}
    IN  OrderedBy(rows, [i \in rows |-> i])

\* A run of tab 2 of Project_Manager_Dashboard.py without a submit.
PMD_IssueQueue(s) ==
    LET PROJECT_ID == sess[s].selected_project_id
    IN  /\ PageAdmin(s)
        /\ PROJECT_ID \in Rows(db.projects)
        /\ cache' = CachedGetProjectMaps(cache, db, PROJECT_ID)
        /\ ev' = [op |-> "issue_queue", s |-> s, page |-> "pm_dashboard",
                  project |-> PROJECT_ID,
                  meeting_requests |-> << >>,
                  open_issues |-> PMD_OpenIssues(db, PROJECT_ID)]
        /\ UNCHANGED <<db, sess, run>>

\* A run of tab 3 of the main script's 'Project Manager Dashboard' without a
\* submit: the meeting requests are listed first, then the open issues.
MA_IssueQueue(s, proj_id_pm) ==
    /\ run[s] = Idle
    /\ IsMainAdmin(s)
    /\ proj_id_pm \in Rows(db.projects)
    /\ ev' = [op |-> "issue_queue", s |-> s, page |-> "main",
              project |-> proj_id_pm,
              meeting_requests |-> MA_MeetingRequests(db, proj_id_pm),
              open_issues |-> MA_OpenIssues(db, proj_id_pm)]
    /\ UNCHANGED <<db, sess, run, cache>>

\* ------------------------------------------------------------- SpecQueue
\* Session s1 is a browser in which alice and then the admin log in: alice
\* raises issues with and without a meeting request, the admin opens tab 2 of
\* the Project_Manager_Dashboard page.  Session s2 is the admin on the main
\* script's tab 3, who also answers issues (store of InitIssues).
NextQueue ==
    \/ MA_Login("s1", "alice@example.com", "pw", "user")
    \/ MA_Login("s1", BootstrapUser, BootstrapPassword, "admin")
    \/ MA_Logout("s1")
    \/ MA_SelectProject("s1", 1)
    \/ \E k \in 1..MaxTasks, one \in BOOLEAN, accepted \in BOOLEAN :
          MA_RaiseIssue("s1", k, one, accepted)
    \/ \E k \in 1..MaxTasks, one \in BOOLEAN, accepted \in BOOLEAN :
          DM_RaiseIssue("s1", k, one, accepted)
    \/ PMD_IssueQueue("s1")
    \/ MA_Login("s2", BootstrapUser, BootstrapPassword, "admin")
    \/ MA_IssueQueue("s2", 1)
    \/ \E i \in 1..MaxIssues : MA_RespondBegin("s2", 1, i)
    \/ \E accepted \in BOOLEAN : MA_RespondInsert("s2", accepted)
    \/ \E accepted \in BOOLEAN : MA_RespondUpdate("s2", accepted)

SpecQueue == InitIssues /\ [][NextQueue]_vars

\* ------------------------------------------------------------------ C24
\* C24 as stated: every open-issue queue shown to a manager lists exactly the
\* unresolved issues of the project (the issues with status 'Open' of its
\* tasks), meeting requests first and by creation time within each group; the
\* main script's meeting-request list has exactly the open issues with
\* request_1_on_1.
C24_QueueIsMeetingFirst ==
    LET Unresolved == {i \in Rows(db.task_issues) :
                          /\ db.task_issues[i].status = "Open"
                          /\ db.tasks[db.task_issues[i].task_id].project_id
                                = ev.project}
        Meeting(i) == db.task_issues[i].request_1_on_1
        Lists(q, S) == /\ Len(q) = Cardinality(S)
                       /\ \A x \in S : \E i \in 1..Len(q) : q[i] = x
                       /\ \A i \in 1..Len(q) : q[i] \in S
        MeetingFirst(q) ==
            \A i, j \in 1..Len(q) :
                i < j => \/ Meeting(q[i]) /\ ~Meeting(q[j])
                         \/ Meeting(q[i]) = Meeting(q[j]) /\ q[i] < q[j]
    IN  ev.op = "issue_queue"
        => /\ Lists(ev.open_issues, Unresolved)
           /\ MeetingFirst(ev.open_issues)
           /\ ev.page = "main"
              => Lists(ev.meeting_requests, {i \in Unresolved : Meeting(i)})

\* ------------------------------------------------------------------ C25
\* AI_&_Resources.py, one run of the page by a member (lines 10-134): tab 1
\* comes first in the script; without a key in the session it shows the
\* warning and calls st.stop() (lines 45-47), which ends the run, so the
\* 'with tab2:' block (lines 120-134, the manager's resources) is not run.
\* With a key the task selection and the question form are shown (the model
\* call is made on submit, AI_Ask) and tab 2 lists the resources.
AI_View(s) ==
    LET PROJECT_ID == sess[s].selected_project_id
        GROQ_API_KEY == sess[s].groq_api_key
    IN  /\ PageMember(s)
        /\ PROJECT_ID \in Rows(db.projects)
        /\ ev' = [op |-> "ai_page", s |-> s, page |-> "ai",
                  warning |-> (GROQ_API_KEY = Absent),
                  model_call |-> FALSE,
                  served |-> IF GROQ_API_KEY = Absent
                             THEN {}
                             ELSE {"assistant", "resources"}]
        /\ UNCHANGED <<db, sess, run, cache>>

\* s1 is the browser of alice ('Alpha'), s2 that of bob ('Beta', which has a
\* requirement to refine); the admin logs in after the member and opens the
\* Manage page.
NextAssistant ==
    \/ MA_Login("s1", "alice@example.com", "pw", "user")
    \/ MA_Login("s2", "bob@example.com", "pw", "user")
    \/ \E s \in Sessions :
        \/ MA_Login(s, BootstrapUser, BootstrapPassword, "admin")
        \/ MA_Logout(s)
        \/ \E p \in 1..MaxProjects : MA_SelectProject(s, p)
        \/ SetGroqApiKey(s, "gsk_1")
        \/ AI_View(s)
        \/ \E k \in 1..MaxTasks : AI_Ask(s, k)
        \/ MS_View(s)
        \/ \E r \in 1..MaxRequirements, stream \in {"complete", "cut"} :
               MS_Refine(s, r, stream)
    \/ AI_ContextExpire

SpecAssistant == InitCache /\ [][NextAssistant]_vars

\* C25 as stated: in a session without an API key a run of the AI & Resources
\* page shows the configuration warning, makes no model call, changes neither
\* the session nor the store and still serves the manager's resources; a
\* refinement asked for on the Manage page without a key leaves session and
\* store as they were.
C25_MissingKeyDegradesAssistantOnly ==
    [][ /\ (ev'.op = "ai_page" /\ sess[ev'.s].groq_api_key = Absent) =>
              /\ ev'.warning
              /\ ~ev'.model_call
              /\ "resources" \in ev'.served
              /\ db' = db
              /\ sess' = sess
        /\ (ev'.op = "refine" /\ sess[ev'.s].groq_api_key = Absent) =>
              /\ ev'.outcome = "no_api_key"
              /\ db' = db
              /\ sess' = sess ]_vars

\* ------------------------------------------------------------------ C26
\* My_Tasks_&_Schedule.py, the status block in two steps.  The run reads the
\* member's tasks, compares the selectbox's value with the status it read
\* (line 79) and only then issues the UPDATE (lines 80-92): another session's
\* UPDATE can commit between the two.
MT_UpdateBegin(s, task_id, new_status) ==
    /\ PageMember(s)
    /\ task_id \in MT_Tasks(db, sess[s].user_id, sess[s].selected_project_id)
    /\ new_status \in StatusOptions
    /\ new_status # db.tasks[task_id].status
    /\ run' = [run EXCEPT ![s] = [pc |-> "mt_update", task |-> task_id,
                                  status |-> new_status]]
    /\ ev' = [op |-> "update_status_begin", s |-> s, page |-> "my_tasks",
              task |-> task_id, status |-> new_status]
    /\ UNCHANGED <<db, sess, cache>>

\* execute_query(update_query, params), st.toast, st.rerun (lines 92-94): the
\* toast follows whatever execute_query returned.
MT_UpdateCommit(s, accepted) ==
    LET task_id == run[s].task
        new_status == run[s].status
    IN  /\ run[s] # Idle
        /\ run[s].pc = "mt_update"
        /\ db' = IF accepted
                 THEN [db EXCEPT !.tasks[task_id] = MT_StatusWrite(@, new_status)]
                 ELSE db
        /\ run' = [run EXCEPT ![s] = Idle]
        /\ ev' = [op |-> "update_status_commit", s |-> s, page |-> "my_tasks",
                  task |-> task_id, status |-> new_status, written |-> accepted,
                  msgs |-> UtilsWriteMsgs(accepted) \cup {"success"}]
        /\ UNCHANGED <<sess, cache>>

\* The store of InitTasks after a sprint of 'Alpha' was created and alice was
\* given a task in it (MA_CreateSprint, MA_AddTask).
StatusDb ==
    [TasksDb EXCEPT !.sprints = <<[project_id |-> 1]>>,
                    !.tasks = <<NewTask(1, 1, NULL, 1)>>]

InitStatus ==
    /\ db = StatusDb
    /\ sess = [s \in Sessions |-> NewSession]
    /\ run = [s \in Sessions |-> Idle]
    /\ ev = [op |-> "init"]
    /\ cache = EmptyCache

\* alice is logged in in two browsers; both have the My Tasks page open on
\* her task, one also the main script's 'My Progress'.
NextStatus ==
    \E s \in Sessions :
        \/ MA_Login(s, "alice@example.com", "pw", "user")
        \/ MA_SelectProject(s, 1)
        \/ \E k \in 1..MaxTasks, st \in StatusOptions : MT_UpdateBegin(s, k, st)
        \/ \E accepted \in BOOLEAN : MT_UpdateCommit(s, accepted)
        \/ \E k \in 1..MaxTasks, st \in StatusOptions, accepted \in BOOLEAN :
              MA_UpdateStatus(s, k, st, accepted)

SpecStatus == InitStatus /\ [][NextStatus]_vars

\* C26 as stated: every status update a session submits is applied when it
\* commits, so that the stored status after it is the submitted one (the last
\* to commit wins) and every other task is left alone; an update that is not
\* stored is not reported as done.
C26_LastCommittedStatusWins ==
    [][ ev'.op \in {"update_status", "update_status_commit"} =>
          /\ "success" \in ev'.msgs =>
                db'.tasks[ev'.task].status = ev'.status
          /\ ev'.written => db'.tasks[ev'.task].status = ev'.status
          /\ \A k \in Rows(db.tasks) \ {ev'.task} : db'.tasks[k] = db.tasks[k]
          /\ Len(db'.tasks) = Len(db.tasks) ]_vars

\* ------------------------------------------------------------------ C27
\* C27 as stated: a logged-in session holds no selected_project_id left by a
\* previous principal.  The one assignment of the key (main script, line 151)
\* is made in a run of a principal that is not 'admin' and takes one of that
\* principal's assigned projects, and no code removes an assignment: a
\* selection held by an 'admin', or one outside the principal's assigned
\* projects, was made by somebody else.
C27_NoInheritedSelection ==
    \A s \in Sessions :
        (LoggedIn(s) /\ sess[s].selected_project_id # NULL) =>
            /\ sess[s].user_type # "admin"
            /\ sess[s].selected_project_id \in
                   AssignedProjects(db, sess[s].user_id)

\* ------------------------------------------------------------------ C28
\* C28 as stated: in every state, every issue whose status is 'Resolved' has
\* at least one row of issue_responses that refers to it.
C28_ResolvedHasResponse ==
    \A i \in Rows(db.task_issues) :
        db.task_issues[i].status = "Resolved" =>
            \E r \in Rows(db.issue_responses) :
                db.issue_responses[r].issue_id = i

\* ------------------------------------------------------------------ C29
\* C29 as stated: no step inserts a response for an issue that is 'Resolved'
\* when the INSERT commits.
C29_NoResponseAfterResolved ==
    [][ (ev'.op = "respond_insert" /\ ev'.inserted) =>
            db.task_issues[ev'.issue].status # "Resolved" ]_vars

\* ------------------------------------------------------------------ C30
\* The scripts that start with a check of logged_in: the main script (after
\* init_db, lines 125-128) and every page (its first lines).
GuardedPages ==
    {"main", "admin_panel", "manage", "pm_dashboard", "my_tasks",
     "submit_update", "doubts", "ai"}

\* A run of one of them in a session whose logged_in is absent or False: the
\* login form (main script) or 'Please log in' is shown and st.stop() ends
\* the run.
LoginWall(s, page) ==
    /\ run[s] = Idle
    /\ ~LoggedIn(s)
    /\ page \in GuardedPages
    /\ ev' = [op |-> "login_wall", s |-> s, page |-> page,
              logged_in |-> sess[s].logged_in]
    /\ UNCHANGED <<db, sess, run, cache>>

\* From the empty store: both init_db seed it; s1 is the browser of the
\* administrators, who create alice and 'Alpha' and assign her; s2 is that of
\* alice, who creates a sprint and one task, updates it, raises one issue and
\* reports progress, and after her of the admin on the Manage page.  Either
\* session logs out and opens pages while logged out.
NextWall ==
    \/ \E s \in Sessions :
        \/ U_InitDb(s)
        \/ MA_InitDb(s)
        \/ U_Logout(s)
        \/ MA_Logout(s)
        \/ \E page \in GuardedPages : LoginWall(s, page)
        \/ MA_Login(s, BootstrapUser, BootstrapPassword, "admin")
    \/ U_Login("s1", BootstrapUser, BootstrapPassword, "manager_or_admin")
    \/ \E accepted \in BOOLEAN :
          AP_AddUser("s1", "Team Member", "alice@example.com", "pw", accepted)
    \/ \E accepted \in BOOLEAN : MA_AdminCreateProject("s1", "Alpha", accepted)
    \/ \E accepted \in BOOLEAN : MA_AdminAssignUser("s1", 1, 1, accepted)
    \/ MA_Login("s2", "alice@example.com", "pw", "user")
    \/ MA_SelectProject("s2", 1)
    \/ \E accepted \in BOOLEAN : MA_CreateSprint("s2", {}, accepted)
    \/ \E accepted \in BOOLEAN :
          db.tasks = << >> /\ MA_AddTask("s2", 1, 1, accepted)
    \/ \E st \in StatusInputs, accepted \in BOOLEAN :
          MT_UpdateStatus("s2", 1, st, accepted)
    \/ \E accepted \in BOOLEAN :
          db.task_issues = << >> /\ DM_RaiseIssue("s2", 1, FALSE, accepted)
    \/ \E accepted \in BOOLEAN : SP_SubmitUpdate("s2", 1, accepted)
    \/ \E accepted \in BOOLEAN : MS_AddRequirement("s2", accepted)

SpecWall == InitEmpty /\ [][NextWall]_vars

\* C30: a step that changes the store, or that issues an INSERT or UPDATE the
\* store refuses, is the seed of init_db or is taken in a session whose
\* logged_in is True; a run stopped at the login check changes nothing.
C30_NoWriteBehindLoginWall ==
    [][ /\ (\/ db' # db
            \/ (DOMAIN ev') \cap {"inserted", "written"} # {})
           => \/ ev'.op = "init_db"
              \/ sess[ev'.s].logged_in = "true"
        /\ ev'.op = "login_wall" => (db' = db /\ sess' = sess) ]_vars

\* A session that has logged out opens a page of a store that holds rows
\* written by the pages, and is stopped.
C30_Witness ==
    /\ ev.op = "login_wall"
    /\ ev.logged_in = "false"
    /\ ev.page # "main"
    /\ db.tasks # << >>
    /\ db.task_issues # << >>

====
